---- MODULE Spec2Model ----
(***************************************************************************)
(* Walk-forward backtest simulator and portfolio constructor of            *)
(* broker_bot (src/broker_bot/backtest.py, features.py, model.py,          *)
(* trader.py).                                                             *)
(*                                                                         *)
(* Numbers.  Returns, weights, leverage and equity are integers in units   *)
(* of 1/BPS (1.0 = 10000), volatilities in units of 1e-6.  The features    *)
(* and labels are kept on that grid with truncating division.  The         *)
(* portfolio arithmetic (sizing, governors, turnover, cost, daily return,  *)
(* equity) is floating point: the result of every operation is rounded to  *)
(* the nearest number with Digits significant digits, ties to even (Fl).   *)
(* Dates are day numbers, day 0 being a Monday.                            *)
(*                                                                         *)
(* Two runs of run_backtest over the same bars and parameters are carried  *)
(* side by side (run[1], run[2]); they differ at most in sim_seed and in   *)
(* the interpreter's string-hash seed, which fixes the order in which a    *)
(* set of symbols is iterated.                                             *)
(* Spec is the backtest; SpecWeights applies the two weight constructors   *)
(* to one scored slice (wc); SpecFeatures applies build_features to bars   *)
(* of any length (feat); SpecGovernors applies the leverage governors of   *)
(* the backtest and of the live driver to one market state and a pair of   *)
(* drawdowns (gov); SpecLive is one cycle of trader.rebalance_portfolio    *)
(* (live).                                                                 *)
(***************************************************************************)
EXTENDS Integers, Sequences, FiniteSets, TLC

VARIABLES bars, params, seed, hashSeed, run, wc, feat, gov, live

vars == <<bars, params, seed, hashSeed, run, wc, feat, gov, live>>

-----------------------------------------------------------------------------
(* Bounds of the model *)

\* largest number of distinct trading days in the input bars
MaxBars == 80
\* sim_seed ranges over 1..MaxSeed
MaxSeed == 2
\* modulus of the modelled pseudo-random generator: random() = state / RngMod
RngMod == 8
\* the interpreter's string-hash seed ranges over 1..MaxHashSeed
MaxHashSeed == 2
\* significant decimal digits of a float
Digits == 3

-----------------------------------------------------------------------------
(* Program constants *)

BPS == 10000
MinDates == 60
RetWin1 == 1
RetWin5 == 5
RetWin10 == 10
MomWin == 20
VolWin == 20
RangeWin == 5
RegimeLong == 200
RegimeShort == 50
MinSamplesLeaf == 5
VolFloor == 1
DdFloorPct == 10
\* len(FEATURE_COLUMNS)
NumFeatures == 9

\* 1.0 in the unit of vol_20d (1e-6)
VolUnit == 100 * BPS
\* resolution of the normalised inverse-volatility share
ShareUnit == BPS \div 10

\* the universe, in frame order (build_features sorts by Symbol)
SymOrder == <<"A", "B", "C">>
AllSymbols == {SymOrder[n] : n \in 1..Len(SymOrder)}
\* the non-benchmark symbols of the backtest's bars
Symbols == AllSymbols
Benchmark == "SPY"
Runs == {1, 2}
NoDate == -1

-----------------------------------------------------------------------------
(* Arithmetic helpers *)

Abs(x) == IF x < 0 THEN -x ELSE x
Min(a, b) == IF a <= b THEN a ELSE b
Max(a, b) == IF a >= b THEN a ELSE b

RECURSIVE SumTo(_, _, _)
\* sum of f[i] for i in lo..hi
SumTo(f, lo, hi) == IF lo > hi THEN 0 ELSE f[hi] + SumTo(f, lo, hi - 1)

RECURSIVE SqrtBetween(_, _, _)
\* largest k in lo..hi with k*k <= n (bisection)
SqrtBetween(n, lo, hi) ==
    IF lo >= hi THEN lo
    ELSE LET mid == (lo + hi + 1) \div 2
         IN  IF mid * mid <= n THEN SqrtBetween(n, mid, hi)
             ELSE SqrtBetween(n, lo, mid - 1)

Isqrt(n) == SqrtBetween(n, 0, Min(n, 4 * BPS))

RECURSIVE Ulp(_, _)
\* spacing of the floats at magnitude a: the least power of ten u >= unit
\* with a < u * 10^Digits
Ulp(a, unit) == IF a < unit * 10^Digits THEN unit ELSE Ulp(a, 10 * unit)

\* the float nearest to x, ties to even
Fl(x) ==
    LET a == Abs(x)
        u == Ulp(a, 1)
        q == a \div u
        rem == a % u
        m == IF 2 * rem > u \/ (2 * rem = u /\ q % 2 = 1) THEN (q + 1) * u ELSE q * u
    IN  IF x < 0 THEN -m ELSE m

\* a / b for a >= 0, b > 0, to the nearest grid point
RDiv(a, b) == (a + b \div 2) \div b

\* the float operations on numbers in units of 1/BPS
FAdd(a, b) == Fl(a + b)
FSub(a, b) == Fl(a - b)
FMul(a, b) == LET p == a * b
              IN  Fl(IF p < 0 THEN -RDiv(-p, BPS) ELSE RDiv(p, BPS))
FDiv(a, b) == Fl(RDiv(a * BPS, b))

-----------------------------------------------------------------------------
(* Input bars: every symbol and the benchmark trade on the same weekdays,  *)
(* gap-free; closes follow one of a few repeating price paths.             *)

PricePaths ==
    <<  <<100, 102, 101, 103, 99, 104, 100>>,
        <<101, 99, 98, 102>>,
        <<100>>,
        <<100, 97, 101, 103, 100>>  >>

PathIds == 1..Len(PricePaths)

\* calendar day number of the i-th bar (1-based) when the first bar falls on
\* weekday dow (0 = Monday .. 4 = Friday)
BarDate(dow, i) ==
    LET n == dow + i - 1
    IN  7 * (n \div 5) + (n % 5)

PathClose(p, i) == PricePaths[p][((i - 1) % Len(PricePaths[p])) + 1]

Close(sym, i) == PathClose(bars.path[sym], i)

\* pct_change between two bars of one symbol, in 1/BPS
PctChange(cFrom, cTo) == ((cTo - cFrom) * BPS) \div cFrom

-----------------------------------------------------------------------------
(* features.py: build_features.  A row survives dropna(FEATURE_COLUMNS)    *)
(* when every rolling column is defined at its bar.                        *)

\* pct_change(n) is defined at bar i when bar i - n exists
HasPct(i, n) == i - n >= 1

\* rolling(w) over a series whose first defined entry is bar `first`
HasRolling(i, w, first) == i - w + 1 >= first

\* mutant: the warm-up taken as 20 bars, the 20th bar emitted
FeatureDefinedAt20(i) == i >= MomWin

FeatureDefined(i) ==
    /\ HasPct(i, RetWin1)                    \* return_1d
    /\ HasPct(i, RetWin5)                    \* return_5d
    /\ HasPct(i, RetWin10)                   \* return_10d
    /\ HasPct(i, MomWin)                     \* mom_20d, rank_mom_20d
    /\ HasRolling(i, VolWin, 1 + RetWin1)    \* vol_20d
    /\ HasRolling(i, RangeWin, 1)            \* range_5d
    /\ HasPct(i, RetWin1)                    \* market_return_1d
    /\ HasPct(i, MomWin)                     \* market_mom_20d

\* the first bar of a gap-free symbol that survives the dropna
FirstFeat == CHOOSE i \in 1..(MomWin + VolWin + 1) :
                 FeatureDefined(i) /\ \A j \in 1..(i - 1) : ~FeatureDefined(j)

\* mutant: the missing benchmark goes unnoticed
MarketNeverMissing(b) == FALSE

\* _attach_market_features, lines 20-22: no bar of the market symbol
MarketMissing(b) == ~b.spy

\* build_features(bars): the rows (symbol, bar) it returns, or the error it
\* raises; every symbol and the benchmark have bars 1..b.n
BuildFeatures(b) ==
    IF MarketMissing(b) THEN [error |-> "market_missing", rows |-> {}]
    ELSE [error |-> "none",
          rows |-> {<<s, i>> : s \in Symbols \cup {Benchmark},
                              i \in {j \in 1..b.n : FeatureDefined(j)}}]

\* bars of a non-benchmark symbol that are rows of `features`
FeatIdx == FirstFeat..bars.n

\* dates = sorted(features["timestamp"].unique())
NumDates == IF bars.n >= FirstFeat THEN bars.n - FirstFeat + 1 ELSE 0

\* bar index of the k-th feature date (k = 1..NumDates)
FeatBar(k) == FirstFeat + k - 1

Date(i) == BarDate(bars.dow, i)

Return1d(sym, i) == PctChange(Close(sym, i - 1), Close(sym, i))

\* rolling(w).std() of the daily returns of a price path at bar i: the sample
\* standard deviation (ddof = 1) of the last w returns, in units of 1e-6
RollingStd(p, i, w) ==
    LET r == [j \in (i - w + 1)..i |->
                 PctChange(PathClose(p, j - 1), PathClose(p, j))]
        mean == SumTo(r, i - w + 1, i) \div w
        sq == [j \in (i - w + 1)..i |-> (r[j] - mean) * (r[j] - mean)]
        var == SumTo(sq, i - w + 1, i) \div (w - 1)
    IN  Isqrt(var) * (VolUnit \div BPS)

Vol20d(sym, i) == RollingStd(bars.path[sym], i, VolWin)

\* dollar_vol_20d: 20-bar mean of close * volume
DollarVol20d(sym, i) ==
    LET dv == [j \in (i - VolWin + 1)..i |-> Close(sym, j) * bars.volume[sym]]
    IN  SumTo(dv, i - VolWin + 1, i) \div VolWin

-----------------------------------------------------------------------------
(* backtest.py: the day's eligible slice                                   *)

\* mutant: no liquidity gate
PassesGateAlways(sym, i) == TRUE

\* liquidity gate, lines 114-117 and 148-151
PassesGate(sym, i) ==
    /\ (params.minPrice > 0 => Close(sym, i) >= params.minPrice)
    /\ (params.minDollarVol > 0 => DollarVol20d(sym, i) >= params.minDollarVol)

\* next_return, line 89: forward return over horizon_days feature rows
HasNextReturn(i) == i + params.horizon <= bars.n

NextReturn(sym, i) == PctChange(Close(sym, i), Close(sym, i + params.horizon))

\* symbols of slice_df on the k-th feature date, lines 112-118
Slice(k) ==
    {s \in Symbols : PassesGate(s, FeatBar(k)) /\ HasNextReturn(FeatBar(k))}

\* to_period(rebalance_frequency): "D" one bucket a day, "W" weeks Mon..Sun
Bucket(d) == IF params.freq = "D" THEN d ELSE d \div 7

\* mutant: the earliest feature date of each bucket
IsRebalanceDateFirst(k) ==
    \A k2 \in 1..(k - 1) :
        Bucket(Date(FeatBar(k2))) # Bucket(Date(FeatBar(k)))

\* rebalance_dates, lines 96-99: the latest feature date of each bucket
IsRebalanceDate(k) ==
    \A k2 \in (k + 1)..NumDates :
        Bucket(Date(FeatBar(k2))) # Bucket(Date(FeatBar(k)))

-----------------------------------------------------------------------------
(* model.py: train_model / predict_return inside the walk-forward loop     *)

\* rows of train_df for a rebalance on the k-th feature date, lines 143-151
InTrainWindow(i, k) ==
    /\ Date(i) < Date(FeatBar(k))
    /\ Date(i) >= Date(FeatBar(k)) - params.lookback

\* train_df rows of one symbol, oldest first
TrainBars(sym, k) ==
    SelectSeq([n \in 1..(FeatBar(k) - FirstFeat) |-> FirstFeat + n - 1],
              LAMBDA i : InTrainWindow(i, k) /\ PassesGate(sym, i))

\* mutant: the labels taken from the next_return column of the full frame
LabelledRowsNextReturn(k) ==
    UNION { LET L == TrainBars(s, k)
            IN  {[sym |-> s, i |-> L[n], to |-> L[n] + params.horizon] :
                    n \in {m \in 1..Len(L) : HasNextReturn(L[m])}}
          : s \in Symbols }

\* build_labels on train_df: the row of a symbol at position n is labelled
\* with the close of the same symbol's row at position n + horizon_days;
\* rows without one are dropped (model.py lines 16-21)
LabelledRows(k) ==
    UNION { LET L == TrainBars(s, k)
            IN  {[sym |-> s, i |-> L[n], to |-> L[n + params.horizon]] :
                    n \in 1..(Len(L) - params.horizon)}
          : s \in Symbols }

RowLabel(row) == PctChange(Close(row.sym, row.i), Close(row.sym, row.to))

RECURSIVE SumLabels(_)
SumLabels(rows) ==
    IF rows = {} THEN 0
    ELSE LET r == CHOOSE x \in rows : TRUE
         IN  RowLabel(r) + SumLabels(rows \ {r})

MeanLabel(rows) == IF rows = {} THEN 0 ELSE SumLabels(rows) \div Cardinality(rows)

\* The regressor stands for RandomForestRegressor(random_state=42): a fixed
\* function of the training rows.  One split on the sign of return_1d, taken
\* when both leaves keep min_samples_leaf rows; a leaf predicts its mean label.
FitModel(rows) ==
    LET down == {r \in rows : Return1d(r.sym, r.i) < 0}
        up == rows \ down
    IN  [split |-> Cardinality(down) >= MinSamplesLeaf /\ Cardinality(up) >= MinSamplesLeaf,
         down |-> MeanLabel(down), up |-> MeanLabel(up), all |-> MeanLabel(rows)]

PredictReturn(model, sym, i) ==
    IF model.split
    THEN IF Return1d(sym, i) < 0 THEN model.down ELSE model.up
    ELSE model.all

-----------------------------------------------------------------------------
(* Portfolio constructor: backtest._inverse_vol_weights and                *)
(* trader.generate_signals + trader._target_weights                        *)

SymIdx(s) == CHOOSE n \in 1..Len(SymOrder) : SymOrder[n] = s

\* sort_values("pred_return", ascending): equal scores keep frame order
Precedes(s, t, pred, desc) ==
    IF pred[s] # pred[t]
    THEN IF desc THEN pred[s] > pred[t] ELSE pred[s] < pred[t]
    ELSE SymIdx(s) < SymIdx(t)

RECURSIVE SortValues(_, _, _)
SortValues(cands, pred, desc) ==
    IF cands = {} THEN <<>>
    ELSE LET first == CHOOSE s \in cands :
                         \A t \in cands \ {s} : Precedes(s, t, pred, desc)
         IN  <<first>> \o SortValues(cands \ {first}, pred, desc)

\* mutant: head(n) keeps every row
HeadAll(seq, n) == seq

\* head(n) / [:n]
HeadN(seq, n) == SubSeq(seq, 1, Min(n, Len(seq)))

SeqRange(seq) == {seq[n] : n \in 1..Len(seq)}

RECURSIVE FSum(_, _)
\* sum() of the first n entries of a sequence of floats, left to right
FSum(f, n) == IF n = 0 THEN 0 ELSE FAdd(FSum(f, n - 1), f[n])

\* 1.0 / max(vol, 1e-6)
InvVol(v) == Fl(RDiv(VolUnit, Max(v, VolFloor)))

\* mutant: the weight cut off by the cap is handed to the book's other
\* positions (the capped weights rescaled to the book's allocation)
BookWeightsRedistributed(book, vol, bookGross, maxPos) ==
    LET inv == [n \in 1..Len(book) |-> InvVol(vol[book[n]])]
        total == FSum(inv, Len(book))
        capped == [n \in 1..Len(book) |->
                      Min(maxPos, Fl(RDiv(Fl(RDiv(inv[n] * ShareUnit, total)) * bookGross,
                                          ShareUnit)))]
        sum == FSum(capped, Len(book))
    IN  [s \in SeqRange(book) |->
            LET n == CHOOSE m \in 1..Len(book) : book[m] = s
            IN  IF sum > 0 THEN Fl(RDiv(capped[n] * bookGross, sum)) ELSE capped[n]]

\* inverse-volatility weights of one book, capped per position
BookWeights(book, vol, bookGross, maxPos) ==
    LET inv == [n \in 1..Len(book) |-> InvVol(vol[book[n]])]
        total == FSum(inv, Len(book))
    IN  [s \in SeqRange(book) |->
            LET n == CHOOSE m \in 1..Len(book) : book[m] = s
                scaled == Fl(RDiv(inv[n] * ShareUnit, total))
            IN  Min(maxPos, Fl(RDiv(scaled * bookGross, ShareUnit)))]

\* mutant: a zero volatility read as 1.0 instead of the floor
LiveInvVolUnit(v) == Fl(RDiv(VolUnit, IF v = 0 THEN VolUnit ELSE Max(v, VolFloor)))

\* 1.0 / max(s.vol or 1e-6, 1e-6)
LiveInvVol(v) == Fl(RDiv(VolUnit, Max(IF v = 0 THEN VolFloor ELSE v, VolFloor)))

\* trader._target_weights, lines 153-164: one book
LiveBookWeights(book, vol, bookGross, maxPos) ==
    LET inv == [n \in 1..Len(book) |-> LiveInvVol(vol[book[n]])]
        total == FSum(inv, Len(book))
    IN  [s \in SeqRange(book) |->
            LET n == CHOOSE m \in 1..Len(book) : book[m] = s
                weight == Fl(RDiv(Fl(RDiv(inv[n] * ShareUnit, total)) * bookGross, ShareUnit))
            IN  Min(maxPos, weight)]

\* mutant: a symbol in both books keeps the long entry
MergeBooksLongWins(longW, shortW) ==
    [s \in DOMAIN longW \cup DOMAIN shortW |->
        IF s \in DOMAIN longW THEN longW[s] ELSE -shortW[s]]

\* dict built by the long loop and then the short loop: a symbol in both
\* books keeps the short entry
MergeBooks(longW, shortW) ==
    [s \in DOMAIN longW \cup DOMAIN shortW |->
        IF s \in DOMAIN shortW THEN -shortW[s] ELSE longW[s]]

\* mutant: the long book keeps the whole leverage when shorting is permitted
LongGrossWhole(gross, allowShorts) == gross

LongGross(gross, allowShorts) == IF allowShorts THEN Fl(RDiv(gross, 2)) ELSE gross
ShortGross(gross, allowShorts) == IF allowShorts THEN Fl(RDiv(gross, 2)) ELSE 0

\* backtest._inverse_vol_weights
InverseVolWeights(slice, pred, vol, topK, minLong, maxShort, gross, maxPos, allowShorts) ==
    LET longs == HeadN(SortValues({s \in slice : pred[s] >= minLong}, pred, TRUE), topK)
        shorts == IF allowShorts
                  THEN HeadN(SortValues({s \in slice : pred[s] <= maxShort}, pred, FALSE), topK)
                  ELSE <<>>
    IN  IF slice = {} THEN <<>>
        ELSE MergeBooks(BookWeights(longs, vol, LongGross(gross, allowShorts), maxPos),
                        BookWeights(shorts, vol, ShortGross(gross, allowShorts), maxPos))

\* trader.generate_signals, lines 114-124: the LONG then the SHORT signals
GenerateSignals(latest, pred, vol, topK, minLong, maxShort) ==
    LET longs == HeadN(SortValues({s \in latest : pred[s] >= minLong}, pred, TRUE), topK)
        shorts == HeadN(SortValues({s \in latest : pred[s] <= maxShort}, pred, FALSE), topK)
    IN  [n \in 1..Len(longs) |->
            [symbol |-> longs[n], score |-> pred[longs[n]], side |-> "LONG", vol |-> vol[longs[n]]]]
        \o
        [n \in 1..Len(shorts) |->
            [symbol |-> shorts[n], score |-> pred[shorts[n]], side |-> "SHORT", vol |-> vol[shorts[n]]]]

SideOf(signals, side) ==
    LET pick == SelectSeq(signals, LAMBDA sg : sg.side = side)
    IN  [n \in 1..Len(pick) |-> pick[n].symbol]

\* trader._target_weights
TargetWeights(signals, gross, maxPos, topK, allowShorts) ==
    LET longs == HeadN(SideOf(signals, "LONG"), topK)
        shorts == IF allowShorts THEN HeadN(SideOf(signals, "SHORT"), topK) ELSE <<>>
        vol == [s \in {signals[n].symbol : n \in 1..Len(signals)} |->
                   (CHOOSE sg \in SeqRange(signals) : sg.symbol = s).vol]
    IN  IF longs = <<>> /\ shorts = <<>> THEN <<>>
        ELSE MergeBooks(LiveBookWeights(longs, vol, LongGross(gross, allowShorts), maxPos),
                        LiveBookWeights(shorts, vol, ShortGross(gross, allowShorts), maxPos))

-----------------------------------------------------------------------------
(* backtest.py: leverage governors of an executed rebalance                *)

SeqMax(seq) == CHOOSE x \in SeqRange(seq) : \A y \in SeqRange(seq) : y <= x

\* mean of the last w benchmark closes up to bar i
SpyMean(i, w) ==
    LET c == [j \in (i - w + 1)..i |-> Close(Benchmark, j)]
    IN  SumTo(c, i - w + 1, i) \div w

\* _regime_leverage on the benchmark bars up to bar i
RegimeLeverage(i, gross, bear) ==
    IF i < RegimeLong THEN gross
    ELSE IF SpyMean(i, RegimeShort) < SpyMean(i, RegimeLong) THEN bear
    ELSE gross

\* mutant: the volatility scale without its cap of 1.0
VolScaledUncapped(lev, spyVol) ==
    IF spyVol > 0
    THEN FMul(lev, Fl(RDiv(params.volTarget * BPS, spyVol)))
    ELSE lev

\* lines 163-164: the leverage scaled by min(1.0, vol_target / spy_vol)
VolScaled(lev, spyVol) ==
    IF spyVol > 0
    THEN Min(lev, FMul(lev, Min(BPS, Fl(RDiv(params.volTarget * BPS, spyVol)))))
    ELSE lev

\* volatility targeting, lines 159-164: i - 1 benchmark returns exist at bar i
VolTargeted(lev, i) ==
    IF params.volTarget > 0 /\ i - 1 >= params.volWindow /\ params.volWindow > 1
    THEN VolScaled(lev, RollingStd(bars.path[Benchmark], i, params.volWindow))
    ELSE lev

\* dd = (peak - equity) / peak, lines 168-169
Drawdown(curve, equity) ==
    LET peak == IF curve # <<>> THEN SeqMax(curve) ELSE equity
    IN  IF peak > 0 THEN FDiv(FSub(peak, equity), peak) ELSE 0

\* mutant: the throttle without its 0.1 floor
DrawdownThrottledUnfloored(lev, dd) ==
    IF params.maxDD > 0 /\ dd > params.maxDD
    THEN FMul(lev, FDiv(params.maxDD, dd))
    ELSE lev

\* drawdown guardrail, lines 167-171
DrawdownThrottled(lev, dd) ==
    IF params.maxDD > 0 /\ dd > params.maxDD
    THEN FMul(lev, Max(FDiv(params.maxDD, dd), (BPS * DdFloorPct) \div 100))
    ELSE lev

\* mutant: only the upper end of the clamp
ClampUpperOnly(lev) == Min(lev, params.gross)

\* line 173
Clamp(lev) == Max(params.minLev, Min(lev, params.gross))

EffectiveLeverage(i, curve, equity) ==
    Clamp(DrawdownThrottled(
              VolTargeted(RegimeLeverage(i, params.gross, params.bear), i),
              Drawdown(curve, equity)))

\* what _regime_leverage returns: bear is TRUE when 200 closes exist and
\* their 50-bar mean is below the 200-bar mean
RegimeChoice(bear) == IF bear THEN params.bear ELSE params.gross

\* backtest.py lines 158-173 on a market state: the leverage after the
\* regime switch, after volatility targeting, after the drawdown guardrail
\* and after the clamp.  spyVol = 0 stands for a benchmark history too short
\* for the window, or a zero volatility
BacktestSteps(bear, spyVol, dd) ==
    LET regimeLev == RegimeChoice(bear)
        scaled == IF params.volTarget > 0 THEN VolScaled(regimeLev, spyVol) ELSE regimeLev
        throttled == DrawdownThrottled(scaled, dd)
    IN  <<regimeLev, scaled, throttled, Clamp(throttled)>>

BacktestLeverage(bear, spyVol, dd) == BacktestSteps(bear, spyVol, dd)[4]

\* trader.py lines 184-195, step by step
LiveSteps(bear, spyVol, dd) ==
    LET regimeLev == RegimeChoice(bear)
        scaled == IF params.volTarget > 0 /\ spyVol > 0
                  THEN FMul(regimeLev, Min(BPS, Fl(RDiv(params.volTarget * BPS, spyVol))))
                  ELSE regimeLev
        throttled == DrawdownThrottled(scaled, dd)
    IN  <<regimeLev, scaled, throttled, Clamp(throttled)>>

LiveLeverage(bear, spyVol, dd) == LiveSteps(bear, spyVol, dd)[4]

\* backtest.py lines 160-162: the rolling standard deviation std of the
\* benchmark returns is read when at least vol_window of the nRet returns
\* exist; a window of one return has no standard deviation
BacktestSpyVol(nRet, std) ==
    IF nRet >= params.volWindow /\ params.volWindow > 1 THEN std ELSE 0

\* trader._spy_volatility, lines 60-67
SpyVolatility(nRet, std) ==
    IF params.volWindow <= 1 THEN 0
    ELSE IF nRet < params.volWindow THEN 0
    ELSE std

-----------------------------------------------------------------------------
(* backtest.py: the day loop of run_backtest                               *)

Get(w, s) == IF s \in DOMAIN w THEN w[s] ELSE 0

\* the symbols of S in frame order (rows of a frame sorted by Symbol)
FrameOrder(S) == SelectSeq(SymOrder, LAMBDA s : s \in S)

\* the order in which a set of symbol strings is iterated: it is fixed by the
\* strings' hashes, hence by the interpreter's hash seed h
SetIter(S, h) ==
    SelectSeq([n \in 1..Len(SymOrder) |-> SymOrder[((n - h) % Len(SymOrder)) + 1]],
              LAMBDA s : s \in S)

\* mutant: the turnover summed over the new symbols only
TurnoverNewOnly(newW, oldW, h) ==
    LET order == SetIter(DOMAIN newW, h)
    IN  FSum([n \in 1..Len(order) |->
                 Abs(FSub(Get(newW, order[n]), Get(oldW, order[n])))], Len(order))

\* line 184: sum() over set(new_weights) | set(current_weights)
Turnover(newW, oldW, h) ==
    LET order == SetIter(DOMAIN newW \cup DOMAIN oldW, h)
    IN  FSum([n \in 1..Len(order) |->
                 Abs(FSub(Get(newW, order[n]), Get(oldW, order[n])))], Len(order))

\* line 186
Cost(turnover) == FMul(params.tcost, turnover)

\* mutant: the return summed over every held symbol, in the slice or not
SliceReturnAllHeld(w, slice, i) ==
    LET order == FrameOrder(slice \cup DOMAIN w)
    IN  FSum([n \in 1..Len(order) |->
                 FMul(Get(w, order[n]), NextReturn(order[n], i))], Len(order))

\* lines 193-196: the weighted realized forward return of the slice, summed
\* row by row
SliceReturn(w, slice, i) ==
    LET order == FrameOrder(slice)
    IN  FSum([n \in 1..Len(order) |->
                 FMul(Get(w, order[n]), NextReturn(order[n], i))], Len(order))

\* line 200
Compound(equity, ret) == FMul(equity, FAdd(BPS, ret))

\* random.Random(sim_seed), line 107: the seed is scrambled into the
\* generator's initial state
RngSeed(sd) == (3 * sd + 7) % RngMod

\* rng.random(): the generator states that can follow; the value drawn is
\* state / RngMod, in [0, 1)
RngRandom(state) == {(5 * state + 3) % RngMod}

\* mutant: the comparison of line 132 inverted
MissedInverted(x) == x * 100 > params.missProb * RngMod

\* line 132: rng.random() < miss_rebalance_prob (missProb in percent)
Missed(x) == x * 100 < params.missProb * RngMod

\* mutant: a pending date matures only strictly after it
MaturedLate(pending, ts) == pending # NoDate /\ ts > pending

\* mutant: a pending date never matures
MaturedNever(pending, ts) == FALSE

\* line 127
Matured(pending, ts) == pending # NoDate /\ ts >= pending

\* mutant: the history check off by one
EnoughHistoryStrict == NumDates > MinDates

\* line 92
EnoughHistory == NumDates >= MinDates

NoFit == [n |-> 0, lo |-> NoDate, hi |-> NoDate, labelHi |-> NoDate]

\* what the regressor of a rebalance on date k was fit on
FitOf(rows) ==
    [n |-> Cardinality(rows),
     lo |-> Date(CHOOSE i \in {r.i : r \in rows} : \A r \in rows : i <= r.i),
     hi |-> Date(CHOOSE i \in {r.i : r \in rows} : \A r \in rows : i >= r.i),
     labelHi |-> Date(CHOOSE i \in {r.to : r \in rows} : \A r \in rows : i >= r.to)]

\* mutant: an empty day skipped without recording a row
EmptyDaySkipped(st, ts) ==
    [st EXCEPT !.k = st.k + 1, !.day = st.k + 1, !.act = "empty", !.trig = FALSE, !.drew = FALSE,
               !.cost = 0, !.turnover = 0, !.prevCw = st.cw,
               !.due = FALSE, !.dueAll = FALSE]

\* mutant: an empty day drops the pending deferral
EmptyDayForgets(st, ts) ==
    [st EXCEPT !.k = st.k + 1, !.day = st.k + 1,
               !.rets = Append(st.rets, <<ts, 0>>),
               !.curve = Append(st.curve, st.equity),
               !.pending = NoDate,
               !.act = "empty", !.trig = FALSE, !.drew = FALSE,
               !.cost = 0, !.turnover = 0, !.prevCw = st.cw,
               !.due = FALSE, !.dueAll = FALSE]

\* mutant: the generator is drawn on a day without eligible symbols too
EmptyDayDraws(st, ts) ==
    [st EXCEPT !.k = st.k + 1, !.day = st.k + 1,
               !.rets = Append(st.rets, <<ts, 0>>),
               !.curve = Append(st.curve, st.equity),
               !.rng = CHOOSE x \in RngRandom(st.rng) : TRUE,
               !.act = "empty", !.trig = FALSE, !.drew = TRUE,
               !.draws = st.draws + 1,
               !.cost = 0, !.turnover = 0, !.prevCw = st.cw,
               !.due = FALSE, !.dueAll = FALSE]

\* lines 120-124: no eligible symbol today
EmptyDay(st, ts) ==
    [st EXCEPT !.k = st.k + 1, !.day = st.k + 1,
               !.rets = Append(st.rets, <<ts, 0>>),
               !.curve = Append(st.curve, st.equity),
               !.act = "empty", !.trig = FALSE, !.drew = FALSE,
               !.cost = 0, !.turnover = 0, !.prevCw = st.cw,
               !.due = FALSE, !.dueAll = FALSE]

\* lines 187-201: a day without an executed rebalance
HoldDay(st, d, trig, pending, rng, drew, act) ==
    LET i == FeatBar(d)
        ret == FSub(SliceReturn(st.cw, Slice(d), i), 0)
        eq == Compound(st.equity, ret)
    IN  [st EXCEPT !.k = d, !.day = d,
                   !.pending = pending, !.rng = rng,
                   !.rets = Append(st.rets, <<Date(i), ret>>),
                   !.equity = eq,
                   !.curve = Append(st.curve, eq),
                   !.act = act, !.trig = trig, !.drew = drew,
                   !.draws = st.draws + (IF drew THEN 1 ELSE 0),
                   !.misses = st.misses + (IF act \in {"miss", "defer"} THEN 1 ELSE 0),
                   !.cost = 0, !.turnover = 0, !.prevCw = st.cw,
                   !.due = \E x \in st.owed : x <= Date(i),
                   !.dueAll = st.owed # {} /\ \A x \in st.owed : x <= Date(i),
                   !.owed = {x \in st.owed : x > Date(i)}
                            \cup (IF act = "defer" THEN {pending} ELSE {})]

\* lines 138-186 and 193-201: an executed rebalance
ExecDay(st, d, pending, rng, drew, h) ==
    LET i == FeatBar(d)
        slice == Slice(d)
        trainEmpty == \A s \in Symbols : TrainBars(s, d) = <<>>
        rows == LabelledRows(d)
        model == FitModel(rows)
        pred == [s \in slice |-> IF trainEmpty THEN 0 ELSE PredictReturn(model, s, i)]
        vol == [s \in slice |-> Vol20d(s, i)]
        lev == EffectiveLeverage(i, st.curve, st.equity)
        newW == InverseVolWeights(slice, pred, vol, params.topK, params.minLong,
                                  params.maxShort, lev, params.maxPos, TRUE)
        turnover == Turnover(newW, st.cw, h)
        cost == Cost(turnover)
        ret == FSub(SliceReturn(newW, slice, i), cost)
        eq == Compound(st.equity, ret)
    IN  IF ~trainEmpty /\ rows = {}
        THEN \* model.fit on zero samples raises
             [st EXCEPT !.pc = "fit_error", !.day = d, !.pending = pending, !.rng = rng,
                        !.act = "raise", !.trig = TRUE, !.drew = drew,
                        !.draws = st.draws + (IF drew THEN 1 ELSE 0),
                        !.due = \E x \in st.owed : x <= Date(i),
                        !.dueAll = st.owed # {} /\ \A x \in st.owed : x <= Date(i)]
        ELSE [st EXCEPT !.k = d, !.day = d,
                        !.pending = pending, !.rng = rng,
                        !.cw = newW,
                        !.rets = Append(st.rets, <<Date(i), ret>>),
                        !.equity = eq,
                        !.curve = Append(st.curve, eq),
                        !.act = "exec", !.trig = TRUE, !.drew = drew,
                        !.draws = st.draws + (IF drew THEN 1 ELSE 0),
                        !.cost = cost, !.turnover = turnover,
                        !.newW = newW, !.prevCw = st.cw, !.lev = lev,
                        !.fit = IF trainEmpty THEN NoFit ELSE FitOf(rows),
                        !.pred = pred,
                        !.train = UNION {{<<s, b>> : b \in SeqRange(TrainBars(s, d))} :
                                            s \in Symbols},
                        !.execs = st.execs + 1,
                        !.due = \E x \in st.owed : x <= Date(i),
                        !.dueAll = st.owed # {} /\ \A x \in st.owed : x <= Date(i),
                        !.owed = {x \in st.owed : x > Date(i)}]

\* mutant: line 136 left out, a missed rebalance is executed all the same
AfterDrawNoReset(st, d, pending, x, h) ==
    IF Missed(x)
    THEN [ExecDay(st, d, IF params.delay > 0 THEN Date(FeatBar(d)) + params.delay
                         ELSE pending, x, TRUE, h)
             EXCEPT !.act = IF @ = "exec"
                            THEN (IF params.delay > 0 THEN "defer" ELSE "miss")
                            ELSE @]
    ELSE ExecDay(st, d, pending, x, TRUE, h)

\* mutant: an executed rebalance cancels the pending deferral
AfterDrawExecCancels(st, d, pending, x, h) ==
    IF Missed(x)
    THEN IF params.delay > 0
         THEN HoldDay(st, d, TRUE, Date(FeatBar(d)) + params.delay, x, TRUE, "defer")
         ELSE HoldDay(st, d, TRUE, pending, x, TRUE, "miss")
    ELSE ExecDay(st, d, NoDate, x, TRUE, h)

\* lines 131-136: the miss draw of a triggered rebalance
AfterDraw(st, d, pending, x, h) ==
    IF Missed(x)
    THEN IF params.delay > 0
         THEN HoldDay(st, d, TRUE, Date(FeatBar(d)) + params.delay, x, TRUE, "defer")
         ELSE HoldDay(st, d, TRUE, pending, x, TRUE, "miss")
    ELSE ExecDay(st, d, pending, x, TRUE, h)

\* mutant: a matured deferral is executed without a miss draw
DayOutcomesMaturedExecutes(st, h) ==
    LET d == st.k + 1
        ts == Date(FeatBar(d))
        matured == Matured(st.pending, ts)
        trig == IsRebalanceDate(d) \/ matured
        pending == IF matured THEN NoDate ELSE st.pending
    IN  IF Slice(d) = {} THEN {EmptyDay(st, ts)}
        ELSE IF ~trig THEN {HoldDay(st, d, FALSE, pending, st.rng, FALSE, "hold")}
        ELSE IF params.missProb > 0 /\ ~matured
             THEN {AfterDraw(st, d, pending, x, h) : x \in RngRandom(st.rng)}
             ELSE {ExecDay(st, d, pending, st.rng, FALSE, h)}

\* one iteration of the loop at line 110: the states the run can be in after
\* processing its next feature date, under string-hash seed h
DayOutcomes(st, h) ==
    LET d == st.k + 1
        ts == Date(FeatBar(d))
        matured == Matured(st.pending, ts)
        trig == IsRebalanceDate(d) \/ matured
        pending == IF matured THEN NoDate ELSE st.pending
    IN  IF Slice(d) = {} THEN {EmptyDay(st, ts)}
        ELSE IF ~trig THEN {HoldDay(st, d, FALSE, pending, st.rng, FALSE, "hold")}
        ELSE IF params.missProb > 0
             THEN {AfterDraw(st, d, pending, x, h) : x \in RngRandom(st.rng)}
             ELSE {ExecDay(st, d, pending, st.rng, FALSE, h)}

\* cumprod of (1 + strategy_return) over the first n rows, line 204
RECURSIVE CumProd(_, _)
CumProd(rows, n) ==
    IF n = 0 THEN <<>>
    ELSE LET prev == CumProd(rows, n - 1)
         IN  Append(prev, IF n = 1 THEN FAdd(BPS, rows[1][2])
                          ELSE FMul(prev[n - 1], FAdd(BPS, rows[n][2])))

RECURSIVE InsertRow(_, _)
InsertRow(sorted, row) ==
    IF sorted = <<>> \/ sorted[Len(sorted)][1] <= row[1] THEN Append(sorted, row)
    ELSE Append(InsertRow(SubSeq(sorted, 1, Len(sorted) - 1), row), sorted[Len(sorted)])

\* sort_values("timestamp"), line 203
RECURSIVE SortByTimestamp(_)
SortByTimestamp(rows) ==
    IF rows = <<>> THEN <<>>
    ELSE InsertRow(SortByTimestamp(SubSeq(rows, 1, Len(rows) - 1)), rows[Len(rows)])

\* lines 203-205: the frame run_backtest returns
ResultFrame(rets) ==
    LET sorted == SortByTimestamp(rets)
        eq == CumProd(sorted, Len(sorted))
    IN  SubSeq([n \in 1..Len(sorted) |-> <<sorted[n][1], sorted[n][2], eq[n]>>],
               1, Len(sorted))

-----------------------------------------------------------------------------
(* Inputs *)

BarCounts ==
    {MinDates - 1, MinDates, FirstFeat + MinDates - 2} \cup ((FirstFeat + MinDates - 1)..MaxBars)

DowChoices == {0, 4}

PathChoices ==
    { [s \in Symbols \cup {Benchmark} |->
          IF s = "A" THEN a ELSE IF s = "B" THEN b ELSE IF s = "C" THEN 4 ELSE 1] :
      a \in {1}, b \in {2, 3} }

BarsChoices ==
    [n : BarCounts, dow : DowChoices, path : PathChoices,
     volume : {[s \in Symbols |-> 1]}, spy : BOOLEAN]

ParamChoices ==
    [horizon : {1, 2}, lookback : {4, 30}, freq : {"D", "W"},
     minPrice : {0, 100}, minDollarVol : {0, 101},
     minLong : {0}, maxShort : {0}, topK : {1, 3},
     gross : {BPS}, bear : {BPS \div 2}, minLev : {BPS \div 5},
     maxPos : {(6 * BPS) \div 10}, tcost : {50},
     volTarget : {25000}, volWindow : {20}, maxDD : {100},
     missProb : {0, 50, 100}, delay : {0, 3, 5}]

SeedChoices == {sd \in [Runs -> 1..MaxSeed] : sd[1] = 1}

\* the second run differs from the first in at most one of the two seeds
HashSeedChoices(sd) ==
    {hs \in [Runs -> 1..MaxHashSeed] : hs[1] = 1 /\ (sd[2] # sd[1] => hs[2] = hs[1])}

IdleWc == [phase |-> "idle"]
IdleFeat == [phase |-> "idle"]
IdleGov == [phase |-> "idle"]
IdleLive == [pc |-> "idle"]

InitRun(sd) ==
    [pc |-> "start", k |-> 0, day |-> 0,
     cw |-> <<>>, equity |-> BPS, curve |-> <<BPS>>, rets |-> <<>>,
     rng |-> RngSeed(sd), pending |-> NoDate, result |-> <<>>,
     act |-> "none", trig |-> FALSE, drew |-> FALSE, cost |-> 0, turnover |-> 0,
     newW |-> <<>>, prevCw |-> <<>>, lev |-> 0, fit |-> NoFit,
     execs |-> 0, draws |-> 0, misses |-> 0,
     due |-> FALSE, dueAll |-> FALSE, owed |-> {}, train |-> {}, pred |-> <<>>]

Init ==
    /\ bars \in BarsChoices
    /\ params \in {p \in ParamChoices :
                      /\ p.missProb = 0 => p.delay = 0
                      /\ p.minDollarVol > 0 =>
                             /\ p.minPrice = 0 /\ p.missProb = 0 /\ p.horizon = 1
                             /\ p.lookback = 30 /\ p.freq = "W"
                      /\ p.topK > 1 =>
                             /\ p.minPrice = 0 /\ p.minDollarVol = 0 /\ p.missProb = 0
                             /\ p.horizon = 1 /\ p.lookback = 4 /\ p.freq = "W"}
    /\ seed \in SeedChoices
    /\ hashSeed \in HashSeedChoices(seed)
    /\ run = [r \in Runs |-> InitRun(seed[r])]
    /\ wc = IdleWc
    /\ feat = IdleFeat
    /\ gov = IdleGov
    /\ live = IdleLive

-----------------------------------------------------------------------------
(* Actions of run_backtest *)

\* lines 87-108: features, the history check, the loop's initial state
Start ==
    /\ \A r \in Runs : run[r].pc = "start"
    /\ run' = [r \in Runs |->
                 [run[r] EXCEPT !.pc = IF BuildFeatures(bars).error # "none" THEN "market_missing"
                                       ELSE IF EnoughHistory THEN "loop"
                                       ELSE "insufficient"]]
    /\ UNCHANGED <<bars, params, seed, hashSeed, wc, feat, gov, live>>

InLoop(r) == run[r].pc = "loop" /\ run[r].k < NumDates

\* one pass of the loop body, lines 110-201, in each run still looping
Day ==
    /\ {r \in Runs : InLoop(r)} # {}
    /\ \E o1 \in (IF InLoop(1) THEN DayOutcomes(run[1], hashSeed[1]) ELSE {run[1]}),
          o2 \in (IF InLoop(2) THEN DayOutcomes(run[2], hashSeed[2]) ELSE {run[2]}) :
          run' = [r \in Runs |-> IF r = 1 THEN o1 ELSE o2]
    /\ UNCHANGED <<bars, params, seed, hashSeed, wc, feat, gov, live>>

AtEnd(r) == run[r].pc = "loop" /\ run[r].k = NumDates

\* lines 203-205: the result frame is built and returned
Finish ==
    /\ {r \in Runs : AtEnd(r)} # {}
    /\ \A r \in Runs : ~InLoop(r)
    /\ run' = [r \in Runs |->
                 IF AtEnd(r)
                 THEN [run[r] EXCEPT !.pc = "done", !.result = ResultFrame(run[r].rets)]
                 ELSE run[r]]
    /\ UNCHANGED <<bars, params, seed, hashSeed, wc, feat, gov, live>>

Next == Start \/ Day \/ Finish

Spec == Init /\ [][Next]_vars

-----------------------------------------------------------------------------
(* The two weight constructors applied to one scored slice *)

\* rebalance_top_k ranges over 1..MaxTopK
MaxTopK == 3

WcChoices ==
    [phase : {"in"},
     latest : {AllSymbols, {"A", "B"}, {}},
     pred : [AllSymbols -> {-20, 0, 20}],
     vol : {[s \in AllSymbols |-> IF s = "A" THEN a ELSE IF s = "B" THEN b ELSE 40000] :
               a \in {0, 10000}, b \in {10000, 40000}},
     topK : 1..MaxTopK,
     thresholds : {<<10, -10>>, <<0, 0>>},
     gross : {BPS, (3 * BPS) \div 2},
     maxPos : {(3 * BPS) \div 10, BPS},
     allowShorts : BOOLEAN,
     out : {<<>>}]

InitWeights ==
    /\ bars = [n |-> 0]
    /\ params = [freq |-> "W"]
    /\ seed = [r \in Runs |-> 1]
    /\ hashSeed = [r \in Runs |-> 1]
    /\ run = [r \in Runs |-> InitRun(1)]
    /\ wc \in WcChoices
    /\ feat = IdleFeat
    /\ gov = IdleGov
    /\ live = IdleLive

\* backtest.py line 175: _inverse_vol_weights on the scored slice
ApplyBacktest ==
    /\ wc.phase = "in"
    /\ wc' = [wc EXCEPT !.phase = "backtest",
                !.out = InverseVolWeights(wc.latest, wc.pred, wc.vol, wc.topK,
                                          wc.thresholds[1], wc.thresholds[2],
                                          wc.gross, wc.maxPos, wc.allowShorts)]
    /\ UNCHANGED <<bars, params, seed, hashSeed, run, feat, gov, live>>

\* trader.py lines 114-124 and 197: generate_signals' selection, then
\* _target_weights
ApplyLive ==
    /\ wc.phase = "in"
    /\ wc' = [wc EXCEPT !.phase = "live",
                !.out = TargetWeights(GenerateSignals(wc.latest, wc.pred, wc.vol, wc.topK,
                                                      wc.thresholds[1], wc.thresholds[2]),
                                      wc.gross, wc.maxPos, wc.topK, wc.allowShorts)]
    /\ UNCHANGED <<bars, params, seed, hashSeed, run, feat, gov, live>>

NextWeights == ApplyBacktest \/ ApplyLive

SpecWeights == InitWeights /\ [][NextWeights]_vars

-----------------------------------------------------------------------------
(* build_features applied to bars of any length *)

\* the input holds 0..MaxFeatBars trading days
MaxFeatBars == 24

FeatBarsChoices ==
    [n : 0..MaxFeatBars, dow : 0..4, path : PathChoices,
     volume : {[s \in Symbols |-> 1]}, spy : BOOLEAN]

InitFeatures ==
    /\ bars \in FeatBarsChoices
    /\ params = [freq |-> "W"]
    /\ seed = [r \in Runs |-> 1]
    /\ hashSeed = [r \in Runs |-> 1]
    /\ run = [r \in Runs |-> InitRun(1)]
    /\ wc = IdleWc
    /\ feat = [phase |-> "in"]
    /\ gov = IdleGov
    /\ live = IdleLive

\* features.py lines 30-65: build_features(bars) returns its frame or raises
BuildFeaturesCall ==
    /\ feat.phase = "in"
    /\ LET res == BuildFeatures(bars)
       IN  feat' = [phase |-> IF res.error = "none" THEN "returned" ELSE "raised",
                    error |-> res.error, rows |-> res.rows]
    /\ UNCHANGED <<bars, params, seed, hashSeed, run, wc, gov, live>>

NextFeatures == BuildFeaturesCall

SpecFeatures == InitFeatures /\ [][NextFeatures]_vars

-----------------------------------------------------------------------------
(* trader.py: one cycle of rebalance_portfolio.  Quantities are in         *)
(* thousandths of a share, prices and the account equity in dollars.       *)

\* getattr(model, "n_features_in_", None) found nothing
NoAttr == 0

\* model.load_model, lines 49-65: the error it raises, or "ok"
LoadModel(m) ==
    IF ~m.exists THEN "file_not_found"
    ELSE IF ~m.forest THEN "not_forest"
    ELSE IF m.nIn # NoAttr /\ m.nIn # NumFeatures THEN "feature_mismatch"
    ELSE "ok"

\* model.predict on X with NumFeatures columns: the regressor refuses an
\* empty X and an X whose width is not the one it was fit on
PredictRaises(m, rows) == rows = {} \/ m.trained # NumFeatures

\* trader.generate_signals, lines 109-112
LiveGate(l) ==
    {s \in l.latestAll :
        /\ (params.minPrice > 0 => l.close[s] >= params.minPrice)
        /\ (params.minDollarVol > 0 => l.dollarVol[s] >= params.minDollarVol)}

\* lines 126-128: a HOLD signal for every other row of latest
HoldSignals(latest, signals, pred, vol) ==
    LET rest == FrameOrder(latest \ {signals[n].symbol : n \in 1..Len(signals)})
    IN  [n \in 1..Len(rest) |->
            [symbol |-> rest[n], score |-> pred[rest[n]], side |-> "HOLD", vol |-> vol[rest[n]]]]

RECURSIVE ComputeDrawdownFrom(_, _, _, _)
\* trader._compute_drawdown, lines 51-56: the loop from values[n] on
ComputeDrawdownFrom(values, n, peak, maxDd) ==
    IF n > Len(values) THEN maxDd
    ELSE LET pk == IF values[n] > peak THEN values[n] ELSE peak
             dd == IF pk > 0 THEN FDiv(FSub(pk, values[n]), pk) ELSE 0
         IN  ComputeDrawdownFrom(values, n + 1, pk, IF dd > maxDd THEN dd ELSE maxDd)

\* trader._compute_drawdown
ComputeDrawdown(values) ==
    IF values = <<>> THEN 0 ELSE ComputeDrawdownFrom(values, 2, values[1], 0)

\* lines 189-191
LiveDrawdown(equities) == IF Len(equities) > 1 THEN ComputeDrawdown(equities) ELSE 0

\* the symbols of a WeightMap in the order its dict yields them: the longs as
\* inserted, then the shorts that were not longs
WeightOrder(signals, weights) ==
    LET longs == SideOf(signals, "LONG")
        shorts == SideOf(signals, "SHORT")
    IN  SelectSeq(longs, LAMBDA s : s \in DOMAIN weights)
        \o SelectSeq(shorts, LAMBDA s : s \in DOMAIN weights /\ s \notin SeqRange(longs))

\* lines 205-213: the tradable / shortable filter
FilterWeights(l, weights) ==
    LET keep == {s \in DOMAIN weights :
                    /\ ~(weights[s] < 0 /\ (s \in l.unshortable \/ s \in l.untradable))
                    /\ ~(weights[s] > 0 /\ s \in l.untradable)}
    IN  [s \in keep |-> weights[s]]

\* how trading.submit_order answers: "ok", "insufficient" (an APIError
\* with code 40310000) or "error" (any other APIError).  kind is "open" for
\* an order of the target loop, "fallback" for its close-only retry and
\* "close" for an order of the closing loop.
BrokerAnswer(broker, kind) ==
    IF broker = "accept" THEN "ok"
    ELSE IF broker = "no_borrow" THEN (IF kind = "open" THEN "insufficient" ELSE "ok")
    ELSE IF broker = "no_qty" THEN (IF kind = "fallback" THEN "error" ELSE "insufficient")
    ELSE "error"

\* lines 243-247: equity * weight / price, in thousandths of a share
TargetQty(l, w, price) ==
    LET value == (l.equity * Abs(w)) \div BPS
        q == (value * 1000) \div price
    IN  IF w < 0 THEN -q ELSE q

\* submit_order was called and answered; the order is put on orders_to_log
Logged(acc, sym, side, qty, kind, status) ==
    [acc EXCEPT !.submits = Append(@, [symbol |-> sym, side |-> side, qty |-> qty, kind |-> kind]),
                !.log = Append(@, [symbol |-> sym, side |-> side, qty |-> qty, status |-> status])]

\* submit_order was called and raised
Refused(acc, sym, side, qty, kind) ==
    [acc EXCEPT !.submits = Append(@, [symbol |-> sym, side |-> side, qty |-> qty, kind |-> kind])]

\* lines 237-332: one pass of the loop over the target weights
TargetOrder(l, acc, sym, w) ==
    LET price == l.close[sym]
        target0 == TargetQty(l, w, price)
        target == IF ~l.shorting /\ target0 < 0 THEN 0 ELSE target0
        current == Get(l.positions, sym)
        delta == target - current
        side == IF delta > 0 THEN "buy" ELSE "sell"
        qty0 == Abs(delta)
        qty1 == IF target < 0 THEN (qty0 \div 1000) * 1000 ELSE qty0
        qty == IF ~l.shorting /\ side = "sell" THEN Min(qty1, current) ELSE qty1
        answer == BrokerAnswer(l.broker, "open")
        closeQty == Min(qty, current)
    IN  IF sym \notin l.latest \/ sym \in l.openOrders \/ price <= 0 THEN acc
        ELSE IF delta = 0 THEN acc
        ELSE IF target < 0 /\ qty1 < 1000 THEN acc
        ELSE IF ~l.shorting /\ side = "sell" /\ qty <= 0 THEN acc
        ELSE IF answer = "ok" THEN Logged(acc, sym, side, qty, "open", "accepted")
        ELSE IF answer = "error"
             THEN [Refused(acc, sym, side, qty, "open") EXCEPT !.error = "api_error"]
        ELSE IF side = "sell" /\ current > 0 /\ closeQty > 0
             THEN IF BrokerAnswer(l.broker, "fallback") = "ok"
                  THEN Logged(Refused(acc, sym, side, qty, "open"),
                              sym, side, closeQty, "fallback", "accepted")
                  ELSE Logged(Refused(acc, sym, side, qty, "open"),
                              sym, side, closeQty, "fallback", "rejected")
        ELSE [Refused(acc, sym, side, qty, "open") EXCEPT
                 !.log = Append(@, [symbol |-> sym, side |-> side, qty |-> qty,
                                    status |-> "skipped"])]

RECURSIVE TargetLoop(_, _, _, _)
\* lines 237-332: the loop, stopped by an APIError that is raised again
TargetLoop(l, acc, order, n) ==
    IF n > Len(order) \/ acc.error # "none" THEN acc
    ELSE TargetLoop(l, TargetOrder(l, acc, order[n], l.weights[order[n]]), order, n + 1)

\* lines 335-358: one pass of the loop that closes the other positions
CloseOrder(l, acc, sym) ==
    LET qty == l.positions[sym]
        side == IF qty > 0 THEN "sell" ELSE "buy"
    IN  IF sym \in DOMAIN l.weights \/ Abs(qty) < 1 \/ sym \in l.openOrders THEN acc
        ELSE IF BrokerAnswer(l.broker, "close") = "ok"
             THEN Logged(acc, sym, side, Abs(qty), "close", "accepted")
        ELSE [Refused(acc, sym, side, Abs(qty), "close") EXCEPT !.error = "api_error"]

RECURSIVE CloseLoop(_, _, _, _)
CloseLoop(l, acc, order, n) ==
    IF n > Len(order) \/ acc.error # "none" THEN acc
    ELSE CloseLoop(l, CloseOrder(l, acc, order[n]), order, n + 1)

-----------------------------------------------------------------------------
(* The leverage governors applied to one market state and two drawdowns *)

GovParamChoices ==
    [gross : {BPS \div 2, BPS, (3 * BPS) \div 2}, bear : {(6 * BPS) \div 10},
     minLev : {0, BPS \div 5, (6 * BPS) \div 5},
     volTarget : {0, 20000}, volWindow : {20}, maxDD : {0, BPS \div 100, BPS \div 10}]

\* drawdowns, in 1/BPS
DdChoices == {0, 500, 1000, 1200, 2500, 5000, 9000, 9900}

GovChoices ==
    [phase : {"in"}, bear : BOOLEAN, spyVol : {0, 10000, 30000, 50000},
     nRet : {19, 20},
     dd : {p \in DdChoices \X DdChoices : p[1] < p[2]},
     lev : {<<0, 0>>}, steps : {<< <<>>, <<>> >>}]

InitGovernors ==
    /\ bars = [n |-> 0]
    /\ params \in GovParamChoices
    /\ seed = [r \in Runs |-> 1]
    /\ hashSeed = [r \in Runs |-> 1]
    /\ run = [r \in Runs |-> InitRun(1)]
    /\ wc = IdleWc
    /\ feat = IdleFeat
    /\ gov \in GovChoices
    /\ live = IdleLive

\* backtest.py lines 158-173, for each of the two drawdowns
GovernBacktest ==
    /\ gov.phase = "in"
    /\ gov' = [gov EXCEPT !.phase = "backtest",
                  !.lev = [n \in 1..2 |->
                              BacktestLeverage(gov.bear, BacktestSpyVol(gov.nRet, gov.spyVol),
                                               gov.dd[n])],
                  !.steps = [n \in 1..2 |->
                                BacktestSteps(gov.bear, BacktestSpyVol(gov.nRet, gov.spyVol),
                                              gov.dd[n])]]
    /\ UNCHANGED <<bars, params, seed, hashSeed, run, wc, feat, live>>

\* trader.py lines 184-195, for each of the two drawdowns
GovernLive ==
    /\ gov.phase = "in"
    /\ gov' = [gov EXCEPT !.phase = "live",
                  !.lev = [n \in 1..2 |->
                              LiveLeverage(gov.bear, SpyVolatility(gov.nRet, gov.spyVol),
                                           gov.dd[n])],
                  !.steps = [n \in 1..2 |->
                                LiveSteps(gov.bear, SpyVolatility(gov.nRet, gov.spyVol),
                                          gov.dd[n])]]
    /\ UNCHANGED <<bars, params, seed, hashSeed, run, wc, feat, live>>

NextGovernors == GovernBacktest \/ GovernLive

SpecGovernors == InitGovernors /\ [][NextGovernors]_vars

-----------------------------------------------------------------------------
(* One cycle of the live driver *)

LiveParamChoices ==
    [gross : {BPS}, bear : {(6 * BPS) \div 10}, minLev : {BPS \div 5},
     volTarget : {20000}, volWindow : {20}, maxDD : {BPS \div 10},
     maxPos : {(6 * BPS) \div 10}, topK : {1, 2},
     minPrice : {0, 5, 100}, minDollarVol : {0, 2},
     minLong : {10}, maxShort : {-10}]

\* the stored model file: absent, not a forest, or a forest fit on `trained`
\* features that carries n_features_in_ = nIn, or no such attribute
StoredModels ==
    {[exists |-> FALSE, forest |-> FALSE, nIn |-> NoAttr, trained |-> 0],
     [exists |-> TRUE, forest |-> FALSE, nIn |-> NoAttr, trained |-> 0]}
    \cup {m \in [exists : {TRUE}, forest : {TRUE},
                  nIn : {NoAttr, NumFeatures - 1, NumFeatures},
                  trained : {NumFeatures - 1, NumFeatures}] :
              m.nIn \in {NoAttr, m.trained}}

GoodModel == [exists |-> TRUE, forest |-> TRUE, nIn |-> NumFeatures, trained |-> NumFeatures]

LiveInputs ==
    [hasFeatures : BOOLEAN,
     latestAll : {{}, AllSymbols},
     close : {[s \in AllSymbols |-> IF s = "A" THEN 4 ELSE IF s = "B" THEN 20 ELSE 10]},
     dollarVol : {[s \in AllSymbols |-> IF s = "A" THEN 1 ELSE 3]},
     pred : {[s \in AllSymbols |-> IF s = "A" THEN 20 ELSE IF s = "B" THEN -20 ELSE 0],
             [s \in AllSymbols |-> IF s = "C" THEN 30 ELSE 20]},
     vol : {[s \in AllSymbols |-> IF s = "A" THEN 10000 ELSE IF s = "B" THEN 40000 ELSE 20000]},
     model : StoredModels,
     shorting : BOOLEAN,
     positions : {<<>>, [s \in {"A"} |-> 10000],
                  [s \in {"B", "C"} |-> IF s = "B" THEN 3000 ELSE -5000]},
     openOrders : {{}, {"A"}},
     untradable : {{}},
     unshortable : {{}, {"B"}},
     equities : {<<>>, <<100, 120, 90, 108>>, <<100, 80>>},
     bear : {FALSE}, spyVol : {0, 40000},
     equity : {10000},
     broker : {"accept", "no_borrow", "no_qty", "down"}]

\* a cycle that ends before the signals exist is taken with one setting of
\* the inputs it never reads
LiveChoices ==
    {l \in LiveInputs :
        /\ ~l.hasFeatures => l.latestAll = {}
        /\ (~l.hasFeatures \/ LoadModel(l.model) # "ok"
              \/ PredictRaises(l.model, l.latestAll)) =>
               /\ ~l.shorting /\ l.positions = <<>> /\ l.openOrders = {}
               /\ l.unshortable = {} /\ l.equities = <<>> /\ l.spyVol = 0
               /\ l.broker = "accept" /\ l.pred["C"] = 0}

NoAcc == [submits |-> <<>>, log |-> <<>>, error |-> "none"]

LiveStart(l) ==
    [pc |-> "features", in |-> l, latest |-> {}, signals |-> <<>>, lev |-> 0,
     weights |-> <<>>, predicted |-> FALSE, gated |-> FALSE,
     submits |-> <<>>, log |-> <<>>, error |-> "none"]

InitLive ==
    /\ bars = [n |-> 0]
    /\ params \in {p \in LiveParamChoices : p.minDollarVol > 0 => p.minPrice = 0}
    /\ seed = [r \in Runs |-> 1]
    /\ hashSeed = [r \in Runs |-> 1]
    /\ run = [r \in Runs |-> InitRun(1)]
    /\ wc = IdleWc
    /\ feat = IdleFeat
    /\ gov = IdleGov
    /\ live \in {LiveStart(l) : l \in LiveChoices}

LiveRaise(error) == live' = [live EXCEPT !.pc = "raised", !.error = error]

\* trader.py lines 93-103: bars, features, the rows of the latest date
LiveFeatures ==
    /\ live.pc = "features"
    /\ IF ~live.in.hasFeatures THEN LiveRaise("no_features")
       ELSE live' = [live EXCEPT !.pc = "load"]
    /\ UNCHANGED <<bars, params, seed, hashSeed, run, wc, feat, gov>>

\* line 105: load_model
LiveLoadModel ==
    /\ live.pc = "load"
    /\ IF LoadModel(live.in.model) # "ok" THEN LiveRaise(LoadModel(live.in.model))
       ELSE live' = [live EXCEPT !.pc = "predict"]
    /\ UNCHANGED <<bars, params, seed, hashSeed, run, wc, feat, gov>>

\* lines 106-107: predict_return on the latest rows
LivePredict ==
    /\ live.pc = "predict"
    /\ IF PredictRaises(live.in.model, live.in.latestAll)
       THEN live' = [live EXCEPT !.pc = "raised", !.error = "predict_error",
                                 !.predicted = TRUE]
       ELSE live' = [live EXCEPT !.pc = "signals", !.predicted = TRUE]
    /\ UNCHANGED <<bars, params, seed, hashSeed, run, wc, feat, gov>>

\* lines 109-133: the gate, the candidates, the signals
LiveSignals ==
    /\ live.pc = "signals"
    /\ LET latest == LiveGate(live.in)
           picked == GenerateSignals(latest, live.in.pred, live.in.vol, params.topK,
                                     params.minLong, params.maxShort)
       IN  live' = [live EXCEPT !.pc = "leverage", !.latest = latest, !.gated = TRUE,
                       !.signals = picked \o HoldSignals(latest, picked, live.in.pred,
                                                         live.in.vol)]
    /\ UNCHANGED <<bars, params, seed, hashSeed, run, wc, feat, gov>>

\* lines 175-195: the account and the leverage governors
LiveGovern ==
    /\ live.pc = "leverage"
    /\ live' = [live EXCEPT !.pc = "weights",
                    !.lev = LiveLeverage(live.in.bear, live.in.spyVol,
                                         LiveDrawdown(live.in.equities))]
    /\ UNCHANGED <<bars, params, seed, hashSeed, run, wc, feat, gov>>

\* lines 197-213: _target_weights and the tradable / shortable filter
LiveWeights ==
    /\ live.pc = "weights"
    /\ live' = [live EXCEPT !.pc = "orders",
                    !.weights = FilterWeights(live.in,
                                    TargetWeights(live.signals, live.lev, params.maxPos,
                                                  params.topK, live.in.shorting))]
    /\ UNCHANGED <<bars, params, seed, hashSeed, run, wc, feat, gov>>

\* the inputs and the state the order loops read
LoopView == [live.in EXCEPT !.latestAll = live.latest] @@
            [latest |-> live.latest, weights |-> live.weights]

\* lines 215-332: the orders that move the book to the target weights
LiveOrders ==
    /\ live.pc = "orders"
    /\ LET acc == TargetLoop(LoopView, NoAcc, WeightOrder(live.signals, live.weights), 1)
       IN  live' = [live EXCEPT !.pc = IF acc.error = "none" THEN "close" ELSE "raised",
                       !.submits = acc.submits, !.log = acc.log, !.error = acc.error]
    /\ UNCHANGED <<bars, params, seed, hashSeed, run, wc, feat, gov>>

\* lines 334-360: the positions outside the target weights are closed
LiveClose ==
    /\ live.pc = "close"
    /\ LET acc == CloseLoop(LoopView,
                            [submits |-> live.submits, log |-> live.log, error |-> "none"],
                            FrameOrder(DOMAIN live.in.positions), 1)
       IN  live' = [live EXCEPT !.pc = IF acc.error = "none" THEN "returned" ELSE "raised",
                       !.submits = acc.submits, !.log = acc.log, !.error = acc.error]
    /\ UNCHANGED <<bars, params, seed, hashSeed, run, wc, feat, gov>>

NextLive ==
    \/ LiveFeatures \/ LiveLoadModel \/ LivePredict \/ LiveSignals
    \/ LiveGovern \/ LiveWeights \/ LiveOrders \/ LiveClose

SpecLive == InitLive /\ [][NextLive]_vars

-----------------------------------------------------------------------------
(* Properties *)

Started(r) == run[r].pc \in {"loop", "done", "fit_error"}

\* the date of the feature date whose loop iteration run r ran last
LastDate(r) == Date(FeatBar(run[r].day))

RECURSIVE SumOver(_, _)
\* sum of f[s] over the symbols of S
SumOver(S, f) ==
    IF S = {} THEN 0
    ELSE LET s == CHOOSE x \in S : TRUE
         IN  f[s] + SumOver(S \ {s}, f)

\* the gross exposure of a WeightMap
SumAbs(w) == SumOver(DOMAIN w, [s \in DOMAIN w |-> Abs(w[s])])

\* C1: with miss_rebalance_prob = 1.0 and rebalance_delay_days = 0 no
\* rebalance is ever executed, current_weights stays empty, every
\* strategy_return is 0 and every equity value is 1.0.
C1_AlwaysMissedIsFlat ==
    (params.missProb = 100 /\ params.delay = 0) =>
        \A r \in Runs :
            Started(r) =>
                /\ run[r].execs = 0
                /\ run[r].act \notin {"exec", "raise"}
                /\ run[r].cw = <<>>
                /\ run[r].equity = BPS
                /\ \A n \in 1..Len(run[r].rets) : run[r].rets[n][2] = 0
                /\ \A n \in 1..Len(run[r].curve) : run[r].curve[n] = BPS
                /\ \A n \in 1..Len(run[r].result) :
                       run[r].result[n][2] = 0 /\ run[r].result[n][3] = BPS

C1_Witness ==
    /\ params.missProb = 100 /\ params.delay = 0
    /\ run[1].pc = "done"
    /\ Len(run[1].result) >= MinDates
    /\ run[1].misses >= 2

\* C2: two runs with identical bars, parameters and sim_seed make the same
\* execute/miss/defer decision on every day and produce identical
\* strategy_return and strategy_equity series.
C2_Deterministic ==
    seed[1] = seed[2] =>
        /\ run[1].day = run[2].day
        /\ run[1].act = run[2].act
        /\ run[1].rets = run[2].rets
        /\ run[1].curve = run[2].curve
        /\ run[1].result = run[2].result

\* C3: every row the model of an executed rebalance on date D is fit on has
\* D - lookback_days <= timestamp < D, and its label uses only closes of
\* rows with timestamp < D.
C3_NoLookAhead ==
    \A r \in Runs :
        (run[r].act = "exec" /\ run[r].fit.n > 0) =>
            /\ LastDate(r) - params.lookback <= run[r].fit.lo
            /\ run[r].fit.hi < LastDate(r)
            /\ run[r].fit.labelHi < LastDate(r)

C3_Witness ==
    /\ run[1].act = "exec"
    /\ run[1].fit.n >= 4
    /\ run[1].fit.lo = LastDate(1) - params.lookback
    /\ run[1].day >= 2
    /\ run[1].fit.labelHi = Date(FeatBar(run[1].day - 1))

\* C4 as stated: every WeightMap of _inverse_vol_weights and of
\* _target_weights has sum of |weight| <= the leverage passed in and every
\* |weight| <= max_position_pct.
C4_LeverageBound ==
    wc.phase \in {"backtest", "live"} =>
        /\ SumAbs(wc.out) <= wc.gross
        /\ \A s \in DOMAIN wc.out : Abs(wc.out[s]) <= wc.maxPos

\* C4, amended: the sum of |weight| is at most the leverage passed in times
\* (1 + eps), eps one unit in the last place of a share for every position;
\* every |weight| is at most max_position_pct exactly.
C4_LeverageBoundRounded ==
    wc.phase \in {"backtest", "live"} =>
        /\ SumAbs(wc.out) * ShareUnit <=
               wc.gross * (ShareUnit + Cardinality(DOMAIN wc.out))
        /\ \A s \in DOMAIN wc.out : Abs(wc.out[s]) <= wc.maxPos

C4_Witness ==
    /\ wc.phase = "live"
    /\ SumAbs(wc.out) > wc.gross
    /\ Cardinality(DOMAIN wc.out) = 3

\* run r ran the loop body for its next feature date in this step
Stepped(r) == run'[r].day = run[r].day + 1

\* the strategy_return recorded for the feature date processed last
LastReturn(st) == st.rets[Len(st.rets)][2]

\* a day with a non-empty slice was the last one processed
NonEmptyDay(r) == run[r].act \in {"hold", "miss", "defer", "exec", "raise"}

\* C5 as stated: every missed rebalance of day d (delay > 0) is triggered
\* again on the first later day with a non-empty slice dated >= d + delay.
C5_EveryDeferralHonoured ==
    \A r \in Runs : (NonEmptyDay(r) /\ run[r].due) => run[r].trig

\* C5, amended: the deferral of the most recent miss is honoured (a later
\* miss replaces the pending date by its own), and a day that is no
\* period end is triggered only by a deferral whose date has come.
C5_LatestDeferralHonoured ==
    \A r \in Runs :
        NonEmptyDay(r) =>
            /\ run[r].dueAll => run[r].trig
            /\ (run[r].trig /\ ~IsRebalanceDate(run[r].day)) => run[r].due

C5_Witness ==
    /\ params.delay > 0 /\ params.freq = "W"
    /\ run[1].act = "exec"
    /\ run[1].dueAll
    /\ ~IsRebalanceDate(run[1].day)
    /\ run[1].misses >= 1

\* C6: current_weights changes only on a day whose rebalance is executed;
\* every other day leaves it unchanged and is charged no cost.
C6_WeightsFrame ==
    [][\A r \in Runs :
          (Stepped(r) /\ run'[r].act \in {"empty", "hold", "miss", "defer"}) =>
              /\ run'[r].cw = run[r].cw
              /\ run'[r].cost = 0
              /\ LastReturn(run'[r]) =
                     IF run'[r].act = "empty" THEN 0
                     ELSE SliceReturn(run[r].cw, Slice(run'[r].day), FeatBar(run'[r].day))]_vars

C6_Witness ==
    /\ run[1].act \in {"miss", "defer"}
    /\ run[1].cw # <<>>
    /\ run[1].prevCw = run[1].cw
    /\ LastReturn(run[1]) # 0
    /\ run[2].act = "exec"

\* C7: on an executed rebalance turnover is the sum over old and new symbols
\* of |new - old|, tcost_bps/10000 * turnover is taken off that day's
\* return, and current_weights becomes the new WeightMap.
C7_TurnoverAndCost ==
    [][\A r \in Runs :
          (Stepped(r) /\ run'[r].act = "exec") =>
              LET old == run[r].cw
                  new == run'[r].cw
                  syms == SetIter(DOMAIN old \cup DOMAIN new, hashSeed[r])
                  delta == [n \in 1..Len(syms) |->
                               Abs(FSub(IF syms[n] \in DOMAIN new THEN new[syms[n]] ELSE 0,
                                        IF syms[n] \in DOMAIN old THEN old[syms[n]] ELSE 0))]
                  total == FSum(delta, Len(syms))
              IN  /\ run'[r].turnover = total
                  /\ run'[r].cost = FMul(params.tcost, total)
                  /\ new = run'[r].newW
                  /\ LastReturn(run'[r]) =
                         FSub(SliceReturn(new, Slice(run'[r].day), FeatBar(run'[r].day)),
                              run'[r].cost)]_vars

C7_Witness ==
    /\ run[1].act = "exec"
    /\ DOMAIN run[1].prevCw \ DOMAIN run[1].cw # {}
    /\ run[1].cw # <<>>
    /\ run[1].cost > 0

\* C8: one (timestamp, strategy_return, strategy_equity) row per feature
\* date in chronological order; the loop's equity equals the reported
\* strategy_equity of that day; equity_curve has one entry more than the
\* days processed.
C8_OneRowPerDate ==
    \A r \in Runs :
        Started(r) =>
            LET st == run[r]
                eq == CumProd(st.rets, Len(st.rets))
            IN  /\ Len(st.rets) = st.k
                /\ Len(st.curve) = st.k + 1
                /\ \A n \in 1..st.k :
                       /\ st.rets[n][1] = Date(FeatBar(n))
                       /\ st.curve[n + 1] = eq[n]
                /\ st.equity = st.curve[st.k + 1]
                /\ st.pc = "done" =>
                       /\ Len(st.result) = Cardinality({Date(i) : i \in FeatIdx})
                       /\ \A n \in 1..Len(st.result) :
                              st.result[n] = <<Date(FeatBar(n)), st.rets[n][2], st.curve[n + 1]>>
                       /\ \A n \in 1..(Len(st.result) - 1) :
                              st.result[n][1] < st.result[n + 1][1]

C8_Witness ==
    /\ run[1].pc = "done"
    /\ run[1].execs >= 3
    /\ run[1].equity # BPS
    /\ \E n \in 1..(NumDates - 10) : Slice(n) = {}

\* C9 as stated: the insufficient-history error is raised exactly when the
\* input bars (benchmark included) hold fewer than 60 distinct trading days.
C9_SixtyTradingDays ==
    \A r \in Runs :
        (bars.spy /\ run[r].pc # "start") =>
            (run[r].pc = "insufficient" <=> bars.n < MinDates)

\* C9, amended: with the benchmark present the error is raised, before any
\* day is processed and with no result, exactly when fewer than 60 distinct
\* feature dates survive the warm-up of build_features.
C9_SixtyFeatureDates ==
    \A r \in Runs :
        (bars.spy /\ run[r].pc # "start") =>
            /\ run[r].pc = "insufficient" <=>
                   Cardinality({Date(i) : i \in {j \in 1..bars.n : FeatureDefined(j)}}) < MinDates
            /\ bars.n < MinDates => run[r].pc = "insufficient"
            /\ run[r].pc = "insufficient" =>
                   run[r].k = 0 /\ run[r].rets = <<>> /\ run[r].result = <<>>

C9_Witness ==
    /\ run[1].pc = "insufficient"
    /\ bars.n >= MinDates

\* a scheduled rebalance day: a period end, or a pending deferral has matured
Scheduled(st, k) == IsRebalanceDate(k) \/ Matured(st.pending, Date(FeatBar(k)))

\* C10 as stated: the backtest fails on the first scheduled rebalance day
\* whose eligible slice is empty.
C10_EmptySliceFails ==
    \A r \in Runs :
        (run[r].act = "empty" /\ Scheduled(run[r], run[r].day)) =>
            run[r].pc \notin {"loop", "done"}

\* C10, amended: a scheduled rebalance day with an empty eligible slice is
\* no failure: the day records a zero return, the run goes on, and weights,
\* equity, the pending deferral and the generator are left as they were.
C10_EmptySliceHolds ==
    [][\A r \in Runs :
          (Stepped(r) /\ Slice(run'[r].day) = {} /\ Scheduled(run[r], run'[r].day)) =>
              /\ run'[r].pc = "loop"
              /\ run'[r].rets = Append(run[r].rets, <<Date(FeatBar(run'[r].day)), 0>>)
              /\ run'[r].curve = Append(run[r].curve, run[r].equity)
              /\ run'[r].cw = run[r].cw
              /\ run'[r].equity = run[r].equity
              /\ run'[r].pending = run[r].pending
              /\ run'[r].rng = run[r].rng
              /\ run'[r].execs = run[r].execs]_vars

\* an empty slice in mid-run, on a day a matured deferral is waiting for,
\* with positions held
C10_Witness ==
    /\ run[1].act = "empty"
    /\ run[1].day + params.horizon < NumDates
    /\ run[1].pending # NoDate /\ run[1].pending <= LastDate(1)
    /\ run[1].cw # <<>>
    /\ run[1].pc = "loop"

\* the symbols build_features is given bars of
FrameSymbols == Symbols \cup {Benchmark}

\* C16 as stated: the first row build_features emits for a gap-free symbol is
\* its 20th bar: no earlier bar is emitted and the 20th is not dropped.
C16_FirstRowIs20thBar ==
    (feat.phase = "returned" /\ bars.n >= MomWin) =>
        \A s \in FrameSymbols :
            /\ <<s, MomWin>> \in feat.rows
            /\ \A i \in 1..(MomWin - 1) : <<s, i>> \notin feat.rows

\* C16, amended: the first row emitted for a gap-free symbol is its 21st bar
\* (a 20-day return and 20 daily returns need 21 closes); none of the first
\* 20 bars is emitted and the 21st, when there is one, is not dropped.
C16_FirstRowIs21stBar ==
    feat.phase = "returned" =>
        \A s \in FrameSymbols :
            /\ \A i \in 1..Min(bars.n, MomWin) : <<s, i>> \notin feat.rows
            /\ \A i \in (MomWin + 1)..bars.n : <<s, i>> \in feat.rows
            /\ \A row \in feat.rows : row[2] \in 1..bars.n

C16_Witness ==
    /\ feat.phase = "returned"
    /\ bars.n = MomWin + 2
    /\ feat.rows = {<<s, i>> : s \in FrameSymbols, i \in {MomWin + 1, MomWin + 2}}

\* C17: without a benchmark bar build_features raises and returns no rows,
\* and run_backtest fails before any day is simulated: no return row, no
\* equity point, no result.
C17_NoBenchmarkFails ==
    /\ ~bars.spy =>
           /\ BuildFeatures(bars).error = "market_missing"
           /\ BuildFeatures(bars).rows = {}
           /\ \A r \in Runs :
                  /\ run[r].pc \in {"start", "market_missing"}
                  /\ run[r].k = 0 /\ run[r].day = 0
                  /\ run[r].rets = <<>> /\ run[r].result = <<>>
                  /\ run[r].execs = 0 /\ run[r].draws = 0
    /\ bars.spy => \A r \in Runs : run[r].pc # "market_missing"

C17_Witness ==
    /\ ~bars.spy
    /\ bars.n >= MinDates + MomWin
    /\ \A r \in Runs : run[r].pc = "market_missing"

\* the feature date processed in this step is the latest one of its bucket
PeriodEnd(ts) ==
    \A k \in 1..NumDates :
        Bucket(Date(FeatBar(k))) = Bucket(ts) => Date(FeatBar(k)) <= ts

\* C13: the generator is drawn exactly once on a day with a non-empty slice
\* whose rebalance is triggered while miss_rebalance_prob > 0, and on no
\* other day; two runs that differ only in sim_seed and execute a rebalance
\* on the same day from the same weights and equity curve compute the same
\* leverage and weights; with miss_rebalance_prob = 0 they agree in
\* everything but the generator.
C13_SeedOnlyMisses ==
    /\ [](seed[1] # seed[2] =>
            /\ (/\ run[1].act = "exec" /\ run[2].act = "exec"
                /\ run[1].day = run[2].day
                /\ run[1].prevCw = run[2].prevCw
                /\ SubSeq(run[1].curve, 1, Len(run[1].curve) - 1) =
                       SubSeq(run[2].curve, 1, Len(run[2].curve) - 1))
               => /\ run[1].newW = run[2].newW
                  /\ run[1].cw = run[2].cw
                  /\ run[1].lev = run[2].lev
                  /\ run[1].fit = run[2].fit
            /\ params.missProb = 0 =>
                   [run[1] EXCEPT !.rng = 0] = [run[2] EXCEPT !.rng = 0])
    /\ [][\A r \in Runs :
            Stepped(r) =>
                LET d == run'[r].day
                    ts == Date(FeatBar(d))
                    triggered == /\ Slice(d) # {}
                                 /\ \/ PeriodEnd(ts)
                                    \/ run[r].pending # NoDate /\ run[r].pending <= ts
                IN  /\ run'[r].drew <=> (triggered /\ params.missProb > 0)
                    /\ run'[r].draws = run[r].draws + (IF run'[r].drew THEN 1 ELSE 0)
                    /\ IF run'[r].drew THEN run'[r].rng \in RngRandom(run[r].rng)
                       ELSE run'[r].rng = run[r].rng]_vars

C13_Witness ==
    /\ seed[1] # seed[2]
    /\ params.missProb > 0
    /\ run[1].act = "exec" /\ run[2].act = "exec"
    /\ run[1].day = run[2].day
    /\ run[1].prevCw = run[2].prevCw /\ run[1].prevCw # <<>>
    /\ SubSeq(run[1].curve, 1, Len(run[1].curve) - 1) =
           SubSeq(run[2].curve, 1, Len(run[2].curve) - 1)
    /\ run[1].rng # run[2].rng
    /\ run[1].draws >= 2

\* C20: on a day with a non-empty slice a rebalance is triggered exactly
\* when the day is the latest feature date of its period bucket or a pending
\* date <= the day exists; its bucket has exactly one rebalance date; a day
\* with an empty slice triggers nothing, draws nothing, defers nothing and
\* leaves the pending date as it is.
C20_RebalanceTrigger ==
    [][\A r \in Runs :
          Stepped(r) =>
              LET d == run'[r].day
                  ts == Date(FeatBar(d))
                  sameBucket == {k \in 1..NumDates : Bucket(Date(FeatBar(k))) = Bucket(ts)}
              IN  /\ \E k \in sameBucket :
                         /\ IsRebalanceDate(k)
                         /\ \A k2 \in sameBucket : IsRebalanceDate(k2) => k2 = k
                  /\ IF Slice(d) # {}
                     THEN run'[r].trig <=>
                              \/ PeriodEnd(ts)
                              \/ run[r].pending # NoDate /\ run[r].pending <= ts
                     ELSE /\ ~run'[r].trig /\ ~run'[r].drew
                          /\ run'[r].act = "empty"
                          /\ run'[r].pending = run[r].pending
                          /\ run'[r].rng = run[r].rng
                          /\ run'[r].draws = run[r].draws
                          /\ run'[r].misses = run[r].misses
                          /\ run'[r].execs = run[r].execs]_vars

C20_Witness ==
    /\ params.freq = "W"
    /\ run[1].day = run[2].day
    /\ run[1].trig /\ ~IsRebalanceDate(run[1].day)
    /\ run[2].act = "hold"
    /\ run[1].act = "exec"

\* the long and the short candidates of the scored slice wc
LongBook ==
    HeadN(SortValues({s \in wc.latest : wc.pred[s] >= wc.thresholds[1]}, wc.pred, TRUE),
          wc.topK)

ShortBook ==
    IF wc.allowShorts
    THEN HeadN(SortValues({s \in wc.latest : wc.pred[s] <= wc.thresholds[2]}, wc.pred, FALSE),
               wc.topK)
    ELSE <<>>

\* C14: a positive weight goes to a symbol of the slice with predicted return
\* >= min_long_return that fewer than top_k symbols of the slice beat; a
\* negative weight to one with predicted return <= max_short_return that
\* fewer than top_k undercut; at most top_k weights are positive, at most
\* top_k negative, and none is negative when shorting is not permitted.
C14_CandidateSelection ==
    wc.phase \in {"backtest", "live"} =>
        LET out == wc.out
            pos == {s \in DOMAIN out : out[s] > 0}
            neg == {s \in DOMAIN out : out[s] < 0}
        IN  /\ DOMAIN out \subseteq wc.latest
            /\ \A s \in pos :
                   /\ wc.pred[s] >= wc.thresholds[1]
                   /\ Cardinality({t \in wc.latest : wc.pred[t] > wc.pred[s]}) < wc.topK
            /\ \A s \in neg :
                   /\ wc.pred[s] <= wc.thresholds[2]
                   /\ Cardinality({t \in wc.latest : wc.pred[t] < wc.pred[s]}) < wc.topK
            /\ Cardinality(pos) <= wc.topK
            /\ Cardinality(neg) <= wc.topK
            /\ ~wc.allowShorts => neg = {}

C14_Witness ==
    /\ wc.phase = "live" /\ wc.allowShorts /\ wc.topK = 1
    /\ Cardinality({s \in wc.latest : wc.pred[s] >= wc.thresholds[1]}) >= 2
    /\ Cardinality({s \in wc.latest : wc.pred[s] <= wc.thresholds[2]}) >= 2
    /\ Cardinality({s \in DOMAIN wc.out : wc.out[s] > 0}) = 1
    /\ Cardinality({s \in DOMAIN wc.out : wc.out[s] < 0}) = 1

\* min(max_position_pct, (inv_i / sum_j inv_j) * B) for symbol s of a book
SizedWeight(book, s, alloc) ==
    LET floor(v) == IF v < VolFloor THEN VolFloor ELSE v
        inv == [n \in 1..Len(book) |-> Fl(RDiv(VolUnit, floor(wc.vol[book[n]])))]
        share == Fl(RDiv(Fl(RDiv(VolUnit, floor(wc.vol[s]))) * ShareUnit,
                         FSum(inv, Len(book))))
        weight == Fl(RDiv(share * alloc, ShareUnit))
    IN  IF weight > wc.maxPos THEN wc.maxPos ELSE weight

\* the leverage allocated to the long and to the short book
LongAlloc == IF wc.allowShorts THEN Fl(RDiv(wc.gross, 2)) ELSE wc.gross
ShortAlloc == IF wc.allowShorts THEN Fl(RDiv(wc.gross, 2)) ELSE 0

\* C15 as stated: every symbol of the long book weighs
\* min(max_position_pct, B * inv_i / sum_j inv_j) and every symbol of the
\* short book minus that, B the book's allocation.
C15_SizingEachBook ==
    wc.phase \in {"backtest", "live"} =>
        /\ DOMAIN wc.out = SeqRange(LongBook) \cup SeqRange(ShortBook)
        /\ \A s \in SeqRange(LongBook) : wc.out[s] = SizedWeight(LongBook, s, LongAlloc)
        /\ \A s \in SeqRange(ShortBook) : wc.out[s] = -SizedWeight(ShortBook, s, ShortAlloc)

\* C15, amended: the formula holds for the short book and for the symbols of
\* the long book that are not in the short book; a symbol that is a
\* candidate of both books keeps its short weight only, and its long weight
\* is not handed to the other long positions.
C15_SizingShortWins ==
    wc.phase \in {"backtest", "live"} =>
        /\ DOMAIN wc.out = SeqRange(LongBook) \cup SeqRange(ShortBook)
        /\ \A s \in SeqRange(LongBook) \ SeqRange(ShortBook) :
               wc.out[s] = SizedWeight(LongBook, s, LongAlloc)
        /\ \A s \in SeqRange(ShortBook) : wc.out[s] = -SizedWeight(ShortBook, s, ShortAlloc)

C15_Witness ==
    /\ wc.phase = "backtest" /\ wc.allowShorts
    /\ SeqRange(LongBook) \cap SeqRange(ShortBook) # {}
    /\ SeqRange(LongBook) \ SeqRange(ShortBook) # {}
    /\ \E s \in SeqRange(LongBook) \ SeqRange(ShortBook) :
           /\ wc.out[s] = wc.maxPos
           /\ \E t \in SeqRange(LongBook) \ SeqRange(ShortBook) : wc.out[t] < wc.maxPos
    /\ SumAbs(wc.out) < wc.gross

Governed == gov.phase \in {"backtest", "live"}

\* C11 as stated: the effective leverage handed to the weight constructor
\* lies in [min_leverage, gross_leverage].
C11_LeverageInInterval ==
    Governed =>
        \A n \in 1..2 : params.minLev <= gov.lev[n] /\ gov.lev[n] <= params.gross

\* C11, amended: with min_leverage <= gross_leverage the effective leverage
\* lies in [min_leverage, gross_leverage]; with min_leverage > gross_leverage
\* it is min_leverage.
C11_LeverageClamped ==
    Governed =>
        \A n \in 1..2 :
            IF params.minLev <= params.gross
            THEN params.minLev <= gov.lev[n] /\ gov.lev[n] <= params.gross
            ELSE gov.lev[n] = params.minLev

C11_Witness ==
    /\ gov.phase = "live"
    /\ params.minLev > 0 /\ params.minLev < params.gross
    /\ params.bear > params.gross /\ gov.bear
    /\ gov.lev[1] = params.gross
    /\ gov.lev[2] = params.minLev

\* C12 as stated: of two drawdowns above max_drawdown the larger one gets
\* the strictly smaller effective leverage.
C12_ThrottleStrict ==
    (Governed /\ params.maxDD > 0 /\ gov.dd[1] > params.maxDD) =>
        gov.lev[2] < gov.lev[1]

\* C12, amended: the larger drawdown never gets the larger leverage; the
\* two are equal once the throttle factor is at its floor of 0.1 for both,
\* and strictly ordered while both results stay above min_leverage and the
\* factors above the floor differ.
C12_ThrottleMonotone ==
    (Governed /\ params.maxDD > 0 /\ gov.dd[1] > params.maxDD) =>
        LET floor == (BPS * DdFloorPct) \div 100
            factor(dd) == Fl((params.maxDD * BPS + dd \div 2) \div dd)
        IN  /\ gov.lev[2] <= gov.lev[1]
            /\ factor(gov.dd[1]) <= floor => gov.lev[2] = gov.lev[1]
            /\ (/\ factor(gov.dd[2]) > floor
                /\ gov.lev[2] > params.minLev
                /\ gov.lev[1] < params.gross) => gov.lev[2] < gov.lev[1]

C12_Witness ==
    /\ gov.phase = "backtest"
    /\ params.maxDD > 0 /\ gov.dd[1] > params.maxDD
    /\ params.minLev = 0
    /\ gov.lev[1] = gov.lev[2] /\ gov.lev[1] > 0
    /\ gov.lev[1] < params.gross

\* C18: load_model raises for every stored forest fit on a number of
\* features other than len(FEATURE_COLUMNS), so that the live driver never
\* reaches predict_return with such a model.
C18_DriftIsFatal ==
    (live.in.model.exists /\ live.in.model.forest
        /\ live.in.model.trained # NumFeatures) =>
        /\ ~live.predicted
        /\ live.pc \in {"features", "load", "raised"}
        /\ live.pc = "raised" =>
               live.error \in {"no_features", "feature_mismatch"}

\* C19: when no row of the latest date passes the liquidity gate, the cycle
\* raises no error and calls submit_order for nothing, not even to close a
\* position.
C19_EmptySliceNoTrades ==
    (live.gated /\ live.latest = {}) =>
        /\ live.submits = <<>>
        /\ live.pc # "raised"

\* the equity curve as the rebalance of the day processed last found it
PrevCurve(st) == SubSeq(st.curve, 1, Len(st.curve) - 1)

\* the last w points of an equity curve
Trailing(curve, w) == SubSeq(curve, Len(curve) - w + 1, Len(curve))

\* the effective leverage of a backtest rebalance at bar i when the throttle
\* is fed the drawdown dd
LeverageFedWith(i, dd) ==
    Clamp(DrawdownThrottled(VolTargeted(RegimeLeverage(i, params.gross, params.bear), i), dd))

\* C21: on every executed rebalance of the backtest the drawdown fed to the
\* throttle is the maximum peak-to-trough drawdown of the equity curve over
\* some trailing window, and the leverage is the one the throttle rule
\* max(max_drawdown / drawdown, 0.1) gives for it.
C21_MaxDrawdownFed ==
    \A r \in Runs :
        run[r].act = "exec" =>
            \E w \in 1..Len(PrevCurve(run[r])) :
                run[r].lev = LeverageFedWith(FeatBar(run[r].day),
                                 ComputeDrawdown(Trailing(PrevCurve(run[r]), w)))

\* C22: the governors run in the order regime, volatility targeting,
\* drawdown throttle, clamp; neither the volatility step nor the drawdown
\* step raises a non-negative leverage; volatility targeting multiplies by
\* min(1, vol_target / realized_vol) and is applied only when vol_target > 0
\* and at least vol_window benchmark returns exist.
C22_GovernorOrder ==
    Governed =>
        \A n \in 1..2 :
            LET st == gov.steps[n]
                applied == st[2] # st[1]
                scale == IF gov.spyVol > 0
                         THEN Min(BPS, FDiv(params.volTarget, gov.spyVol))
                         ELSE BPS
            IN  /\ st[1] = (IF gov.bear THEN params.bear ELSE params.gross)
                /\ st[2] <= st[1]
                /\ st[2] \in {st[1], FMul(st[1], scale)}
                /\ applied => (params.volTarget > 0 /\ gov.nRet >= params.volWindow)
                /\ (params.volTarget > 0 /\ gov.nRet >= params.volWindow /\ gov.spyVol > 0)
                       => st[2] = FMul(st[1], scale)
                /\ st[3] <= st[2]
                /\ st[3] = (IF params.maxDD > 0 /\ gov.dd[n] > params.maxDD
                            THEN FMul(st[2], Max(FDiv(params.maxDD, gov.dd[n]),
                                                 (BPS * DdFloorPct) \div 100))
                            ELSE st[2])
                /\ st[4] = Max(params.minLev, Min(st[3], params.gross))
                /\ gov.lev[n] = st[4]

\* volatility targeting and the drawdown throttle both cut the leverage,
\* and the clamp then leaves the result alone
C22_Witness ==
    /\ Governed
    /\ gov.steps[2][2] < gov.steps[2][1]
    /\ gov.steps[2][3] < gov.steps[2][2]
    /\ gov.steps[2][4] = gov.steps[2][3]

\* the WeightMap of the backtest's constructor for the scored slice wc
BacktestMap ==
    InverseVolWeights(wc.latest, wc.pred, wc.vol, wc.topK, wc.thresholds[1],
                      wc.thresholds[2], wc.gross, wc.maxPos, wc.allowShorts)

\* the WeightMap of the live path for the scored slice wc
LiveMap ==
    TargetWeights(GenerateSignals(wc.latest, wc.pred, wc.vol, wc.topK,
                                  wc.thresholds[1], wc.thresholds[2]),
                  wc.gross, wc.maxPos, wc.topK, wc.allowShorts)

-----------------------------------------------------------------------------
(* The backtest and the live cycle under one specification, for what is    *)
(* claimed of both                                                          *)

InitBoth == Init \/ InitLive

\* the backtest's steps are taken by a backtest only
NextBoth ==
    \/ live = IdleLive /\ Next
    \/ NextLive

SpecBoth == InitBoth /\ [][NextBoth]_vars

\* the liquidity gate as the thresholds state it, on a close and a 20-day
\* dollar volume
Liquid(close, dollarVol) ==
    /\ params.minPrice > 0 => close >= params.minPrice
    /\ params.minDollarVol > 0 => dollarVol >= params.minDollarVol

\* C24: the WeightMap of an executed rebalance, in the backtest and in the
\* live cycle, gives a non-zero weight only to symbols that pass the gate
\* on the rebalance day, and every row the walk-forward model is trained on
\* passes the gate of its own day.
C24_LiquidityGate ==
    /\ \A r \in Runs :
           run[r].act = "exec" =>
               /\ \A s \in DOMAIN run[r].cw :
                      run[r].cw[s] # 0 =>
                          Liquid(Close(s, FeatBar(run[r].day)),
                                 DollarVol20d(s, FeatBar(run[r].day)))
               /\ \A row \in run[r].train :
                      Liquid(Close(row[1], row[2]), DollarVol20d(row[1], row[2]))
    /\ live.pc \in {"orders", "close", "returned"} =>
           \A s \in DOMAIN live.weights :
               live.weights[s] # 0 =>
                   /\ s \in live.in.latestAll
                   /\ Liquid(live.in.close[s], live.in.dollarVol[s])

\* a backtest rebalance whose slice and training rows have lost symbols to
\* the dollar-volume gate
C24_Witness ==
    /\ run[1].act = "exec"
    /\ params.minDollarVol > 0
    /\ run[1].cw # <<>>
    /\ \E s \in Symbols : ~Liquid(Close(s, FeatBar(run[1].day)),
                                   DollarVol20d(s, FeatBar(run[1].day)))
    /\ run[1].train # {}
    /\ \E s \in Symbols : \A row \in run[1].train : row[1] # s

\* C25: after a day with a non-empty slice the pending date is unset or
\* strictly later than that day; it is set only by a missed rebalance with
\* rebalance_delay_days > 0, to that day + rebalance_delay_days; with
\* miss_rebalance_prob = 0 or rebalance_delay_days = 0 it is never set.
C25_PendingInvariant ==
    /\ [](\A r \in Runs :
             /\ NonEmptyDay(r) =>
                    (run[r].pending = NoDate \/ run[r].pending > LastDate(r))
             /\ (params.missProb = 0 \/ params.delay = 0) => run[r].pending = NoDate)
    /\ [][\A r \in Runs :
             (run'[r].pending # run[r].pending /\ run'[r].pending # NoDate) =>
                 /\ Stepped(r)
                 /\ run'[r].act = "defer" /\ run'[r].drew
                 /\ params.delay > 0
                 /\ run'[r].pending = Date(FeatBar(run'[r].day)) + params.delay]_vars

\* a pending date matured on a day with a non-empty slice, was cleared, and
\* the rebalance it triggered was executed
C25_Witness ==
    /\ run[1].act = "exec" /\ run[1].due
    /\ ~IsRebalanceDate(run[1].day)
    /\ run[1].pending = NoDate
    /\ run[1].misses > 0

\* C26: a deferral that matures on a day with a non-empty slice is cleared
\* and its rebalance gets a fresh miss draw; a miss defers it again to that
\* day + rebalance_delay_days; with miss_rebalance_prob = 1.0 and
\* rebalance_delay_days > 0 nothing is ever executed and the equity stays 1.0.
C26_MaturedRedrawn ==
    /\ []((params.missProb = 100 /\ params.delay > 0) =>
             \A r \in Runs :
                 /\ run[r].execs = 0 /\ run[r].cw = <<>>
                 /\ run[r].act \notin {"exec", "raise"}
                 /\ \A n \in 1..Len(run[r].curve) : run[r].curve[n] = BPS
                 /\ \A n \in 1..Len(run[r].rets) : run[r].rets[n][2] = 0
                 /\ \A n \in 1..Len(run[r].result) : run[r].result[n][3] = BPS)
    /\ [][\A r \in Runs :
             (/\ Stepped(r)
              /\ Slice(run'[r].day) # {}
              /\ Matured(run[r].pending, Date(FeatBar(run'[r].day)))
              /\ params.missProb > 0) =>
                 /\ run'[r].trig /\ run'[r].drew
                 /\ run'[r].rng \in RngRandom(run[r].rng)
                 /\ IF Missed(run'[r].rng)
                    THEN /\ run'[r].act = "defer"
                         /\ run'[r].pending = Date(FeatBar(run'[r].day)) + params.delay
                         /\ run'[r].execs = run[r].execs
                         /\ run'[r].cw = run[r].cw
                    ELSE /\ run'[r].act \in {"exec", "raise"}
                         /\ run'[r].pending = NoDate]_vars

\* a deferral matured on a day that is no period end, was drawn again,
\* missed again and deferred again
C26_Witness ==
    /\ run[1].act = "defer" /\ run[1].due /\ run[1].drew
    /\ ~IsRebalanceDate(run[1].day)
    /\ run[1].pending = LastDate(1) + params.delay
    /\ run[1].misses >= 2

\* C27: one pending date is kept.  A period-end rebalance executed on a day
\* strictly before the pending date leaves that date as it is; missed (with
\* rebalance_delay_days > 0) it overwrites the date by day +
\* rebalance_delay_days; and a pending date that has matured on a day with a
\* non-empty slice triggers a rebalance and is cleared.
C27_OneDeferralKept ==
    [][\A r \in Runs :
          LET d == run'[r].day
              ts == Date(FeatBar(d))
              old == run[r].pending
          IN  (Stepped(r) /\ Slice(d) # {} /\ old # NoDate) =>
                  /\ (IsRebalanceDate(d) /\ ts < old) =>
                         /\ run'[r].trig
                         /\ run'[r].act \in {"exec", "raise"} => run'[r].pending = old
                         /\ run'[r].act = "defer" =>
                                run'[r].pending = ts + params.delay
                         /\ run'[r].act \in {"exec", "raise", "defer"}
                  /\ ts >= old =>
                         /\ run'[r].trig
                         /\ run'[r].pending \in {NoDate, ts + params.delay}
                  /\ (~IsRebalanceDate(d) /\ ts < old) =>
                         ~run'[r].trig /\ run'[r].pending = old]_vars

\* a period-end rebalance was executed while an earlier miss's pending date
\* lay ahead, and the date is still pending
C27_Witness ==
    /\ run[1].act = "exec"
    /\ IsRebalanceDate(run[1].day)
    /\ run[1].pending # NoDate /\ run[1].pending > LastDate(1)
    /\ run[1].execs >= 1 /\ run[1].misses >= 1

\* C28: whenever the walk-forward loop calls train_model the training window
\* holds a row with a defined forward-return label, so that no backtest ends
\* in the error model.fit raises on zero samples.
C28_TrainingWindowLabelled ==
    \A r \in Runs : run[r].pc # "fit_error"

\* what symbol s adds to the strategy return of feature date k under weights w
Contribution(w, s, k) ==
    IF s \in Slice(k) THEN FMul(Get(w, s), NextReturn(s, FeatBar(k))) ELSE 0

\* C29: the strategy return of a day is the sum of the contributions of the
\* symbols of that day's slice, less the cost; a held symbol outside the
\* slice adds 0, and on a day without an executed rebalance it keeps its
\* weight and no cost is charged.
C29_ReturnOverSliceOnly ==
    [][\A r \in Runs :
          LET d == run'[r].day
              all == FrameOrder(Symbols)
          IN  (Stepped(r) /\ run'[r].act # "raise") =>
                  /\ LastReturn(run'[r]) =
                         FSub(FSum([n \in 1..Len(all) |->
                                       Contribution(run'[r].cw, all[n], d)], Len(all)),
                              run'[r].cost)
                  /\ run'[r].act # "exec" =>
                         /\ run'[r].cw = run[r].cw
                         /\ run'[r].cost = 0
                         /\ run'[r].execs = run[r].execs]_vars

\* a day without a rebalance on which a held symbol with a non-zero forward
\* return fails the gate while another symbol passes it
C29_Witness ==
    /\ run[1].act = "hold"
    /\ Slice(run[1].day) # {}
    /\ \E s \in DOMAIN run[1].cw \ Slice(run[1].day) :
           /\ run[1].cw[s] # 0
           /\ NextReturn(s, FeatBar(run[1].day)) # 0
    /\ LastReturn(run[1]) # 0

\* the sum of the positive weights and of the absolute negative weights
SumLong(w) ==
    LET pos == {s \in DOMAIN w : w[s] > 0}
    IN  SumOver(pos, [s \in pos |-> w[s]])

SumShort(w) ==
    LET neg == {s \in DOMAIN w : w[s] < 0}
    IN  SumOver(neg, [s \in neg |-> -w[s]])

\* symbols of a scored slice that head(top_k) keeps in the long
\* book, and in the short book, however ties are ordered
SureLongs(pred) ==
    {s \in DOMAIN pred :
        /\ pred[s] >= params.minLong
        /\ Cardinality({t \in DOMAIN pred \ {s} : pred[t] >= pred[s]}) < params.topK}

SureShorts(pred) ==
    {s \in DOMAIN pred :
        /\ pred[s] <= params.maxShort
        /\ Cardinality({t \in DOMAIN pred \ {s} : pred[t] <= pred[s]}) < params.topK}

\* C30 as stated: in every WeightMap of an executed rebalance the positive
\* weights sum to at most half of the effective leverage (gross_leverage /
\* 2.0 as line 46 computes it) and the absolute negative weights to at most
\* half of it.
C30_HalfBooks ==
    \A r \in Runs :
        run[r].act = "exec" =>
            /\ SumLong(run[r].newW) <= LongGross(run[r].lev, TRUE)
            /\ SumShort(run[r].newW) <= ShortGross(run[r].lev, TRUE)

\* C30, amended: each book sums to at most half of the effective leverage
\* times (1 + eps), eps one unit in the last place of a share for every
\* position of the book; that holds of the long book also when no weight is
\* negative; a symbol that is in both books has one weight, minus its
\* short-book weight, which is not positive; and a symbol with a predicted
\* return at or below max_short_return that head(top_k) keeps is never left
\* without a short weight.
C30_HalfBooksRounded ==
    \A r \in Runs :
        run[r].act = "exec" =>
            LET w == run[r].newW
                d == run[r].day
                half == LongGross(run[r].lev, TRUE)
                pos == {s \in DOMAIN w : w[s] > 0}
                neg == {s \in DOMAIN w : w[s] < 0}
                pred == run[r].pred
                shortBook == HeadN(SortValues({s \in Slice(d) : pred[s] <= params.maxShort},
                                              pred, FALSE), params.topK)
                vol == [s \in Slice(d) |-> Vol20d(s, FeatBar(d))]
            IN  /\ SumLong(w) * ShareUnit <= half * (ShareUnit + Cardinality(pos))
                /\ SumShort(w) * ShareUnit <= half * (ShareUnit + Cardinality(neg))
                /\ ShortGross(run[r].lev, TRUE) = half
                /\ DOMAIN w \subseteq Slice(d) /\ DOMAIN pred = Slice(d)
                /\ \A s \in SureShorts(pred) :
                       /\ s \in DOMAIN w
                       /\ w[s] <= 0
                       /\ w[s] = -BookWeights(shortBook, vol, half, params.maxPos)[s]
                /\ \A s \in SureLongs(pred) \ SeqRange(shortBook) :
                       s \in DOMAIN w /\ w[s] >= 0

\* an executed rebalance with three long positions and no short one whose
\* weights add up to more than half of the effective leverage
C30_Witness ==
    /\ run[1].act = "exec"
    /\ SumShort(run[1].newW) = 0
    /\ Cardinality(DOMAIN run[1].newW) = 3
    /\ SumLong(run[1].newW) > LongGross(run[1].lev, TRUE)
    /\ SumLong(run[1].newW) < run[1].lev
    /\ SureShorts(run[1].pred) = {}

====
